---------------------------- MODULE Spec2Model ----------------------------
(***************************************************************************)
(* A model of the Source-engine client (se-rust-client): the ICE cipher,   *)
(* the ICE envelope of a datagram, the NetChannel receive and send paths   *)
(* and the subchannel reassembler.                                         *)
(*                                                                         *)
(* Machine words.  TLC's integers are 32-bit signed, so a u32 of the       *)
(* program is modelled as the set of the positions of its 1 bits (a subset *)
(* of 0..31): xor is symmetric difference, and is intersection, or is      *)
(* union, and a shift moves the positions and drops those that leave       *)
(* 0..31, exactly as the wrapping shifts of the program do.                *)
(***************************************************************************)
EXTENDS Integers, Sequences, FiniteSets, TLC

(***************************************************************************)
(* u32 arithmetic                                                          *)
(***************************************************************************)
Pow2(n) == 2 ^ n

\* the u32 holding the number n (0 <= n < 2^31)
Bits(n) == {i \in 0..30 : (n \div Pow2(i)) % 2 = 1}

\* the number a u32 below 2^16 holds
Val(w) ==
    LET b(i) == IF i \in w THEN Pow2(i) ELSE 0
    IN ((b(0) + b(1)) + (b(2) + b(3))) + ((b(4) + b(5)) + (b(6) + b(7)))
       + (((b(8) + b(9)) + (b(10) + b(11))) + ((b(12) + b(13)) + (b(14) + b(15))))

XOR(a, b) == (a \ b) \cup (b \ a)
AND(a, b) == a \cap b
OR(a, b)  == a \cup b
SHL(a, n) == {i + n : i \in {j \in a : j + n <= 31}}
SHR(a, n) == {i - n : i \in {j \in a : j >= n}}

\* a byte sequence of the program (Vec<u8>, &[u8]) is a TLA+ sequence of 0..255;
\* At(s, i) is s[i] with the program's 0-based index
At(s, i) == s[i + 1]

(***************************************************************************)
(* ICE (src/src/source/ice.rs)                                             *)
(***************************************************************************)
ice_smod == << <<333, 313, 505, 369>>,
               <<379, 375, 319, 391>>,
               <<361, 445, 451, 397>>,
               <<397, 425, 395, 505>> >>

\* 0x83 0x85 0x9b 0xcd / 0xcc 0xa7 0xad 0x41 / 0x4b 0x2e 0xd4 0x33 / 0xea 0xcb 0x2e 0x04
ice_sxor == << <<131, 133, 155, 205>>,
               <<204, 167, 173,  65>>,
               << 75,  46, 212,  51>>,
               <<234, 203,  46,   4>> >>

\* every entry of the P-box is one bit; the entry is given by the bit's position
\* (0x00000001 is 0, 0x00000080 is 7, ..., 0x80000000 is 31)
ice_pbox == << 0,  7, 10, 13, 19, 21, 24, 30,
               3,  5,  8, 14, 16, 23, 26, 29,
               2,  4,  9, 15, 17, 22, 27, 28,
               1,  6, 11, 12, 18, 20, 25, 31 >>

ice_keyrot  == <<0, 1, 2, 3, 2, 1, 3, 0, 1, 3, 2, 0, 3, 1, 0, 2>>
\* a schedule that takes the rotations of the first eight rounds again
ice_keyrot_again == <<0, 1, 2, 3, 2, 1, 3, 0>>

ice_keyrot2 == <<1, 3, 2, 0, 3, 1, 0, 2>>

RECURSIVE gf_mult_loop(_, _, _, _)
gf_mult_loop(a, b, m, res) ==
    IF b = {} THEN res
    ELSE LET res1 == IF AND(b, Bits(1)) # {} THEN XOR(res, a) ELSE res
             a1   == SHL(a, 1)
             b1   == SHR(b, 1)
             a2   == IF a1 \cap (8..31) # {} THEN XOR(a1, m) ELSE a1   \* a >= 256
         IN gf_mult_loop(a2, b1, m, res1)

gf_mult(a, b, m) == gf_mult_loop(a, b, m, {})

gf_exp7(b, m) ==
    IF b = {} THEN {}
    ELSE LET x1 == gf_mult(b, b, m)
             x2 == gf_mult(b, x1, m)
             x3 == gf_mult(x2, x2, m)
         IN gf_mult(b, x3, m)

\* res |= ice_pbox[pbox_idx] for every 1 bit pbox_idx of x
ice_perm32(x) == {At(ice_pbox, i) : i \in x}

\* ice_sboxes_init: the four tables, which do not depend on the key; the index
\* i (0..1023) is a u32 like every other word
ice_sbox ==
    [s \in 0..3 |->
      [i \in SUBSET (0..9) |->
        LET col == AND(SHR(i, 1), Bits(255))
            row == Val(OR(AND(i, Bits(1)), SHR(AND(i, Bits(512)), 8)))
            x   == SHL(gf_exp7(XOR(col, Bits(At(At(ice_sxor, s), row))),
                               Bits(At(At(ice_smod, s), row))),
                       24 - 8 * s)
        IN ice_perm32(x)]]

\* ice_key_create: the key structure of strength n with an all-zero schedule
ice_key_create(n) ==
    LET size   == IF n < 1 THEN 1 ELSE n
        rounds == IF n < 1 THEN 8 ELSE n * 16
    IN [ik_size |-> size, ik_rounds |-> rounds,
        ik_sched |-> [r \in 0..(rounds - 1) |-> [q \in 0..2 |-> {}]]]

M3ff   == 0..9     \* 0x3ff
Mffc00 == 10..19   \* 0xffc00

ice_f(p, sk) ==
    LET tl  == OR(AND(SHR(p, 16), M3ff), AND(OR(SHR(p, 14), SHL(p, 18)), Mffc00))
        tr  == OR(AND(p, M3ff), AND(SHL(p, 2), Mffc00))
        al0 == AND(sk[2], XOR(tl, tr))
        ar0 == XOR(al0, tr)
        al1 == XOR(al0, tl)
        al  == XOR(al1, sk[0])
        ar  == XOR(ar0, sk[1])
    IN OR(OR(ice_sbox[0][SHR(al, 10)], ice_sbox[1][AND(al, M3ff)]),
          OR(ice_sbox[2][SHR(ar, 10)], ice_sbox[3][AND(ar, M3ff)]))

RECURSIVE sched_bits(_, _, _, _, _)
\* the loop over k of ice_key_sched_build, for subkey word j % 3: <<isk, kb>>.
\* The words of the schedule stay below 2^20 and those of kb below 2^16, so
\* they are kept as numbers here: x << 1 | bit is 2x + bit, x >> 1 is x \div 2,
\* and (bit ^ 1) << 15 is (1 - bit) * 2^15.
\* (TLC passes arguments unevaluated; the test of <<isk, kb>> against itself has
\* it evaluate the loop's state at every iteration, as the program does.)
sched_bits(isk, kb, kr, j, k) ==
    IF k >= 4 \/ <<isk, kb>> # <<isk, kb>> THEN <<isk, kb>>
    ELSE LET c    == (kr + k) % 4
             bit  == kb[c] % 2
             sk1  == isk[j % 3] * 2 + bit
             kb1  == (kb[c] \div 2) + (1 - bit) * Pow2(15)
         IN sched_bits([isk EXCEPT ![j % 3] = sk1], [kb EXCEPT ![c] = kb1],
                       kr, j, k + 1)

RECURSIVE sched_words(_, _, _, _)
\* the loop over j of ice_key_sched_build: <<isk, kb>>
sched_words(isk, kb, kr, j) ==
    IF j >= 15 \/ <<isk, kb>> # <<isk, kb>> THEN <<isk, kb>>
    ELSE LET r == sched_bits(isk, kb, kr, j, 0)
         IN sched_words(r[1], r[2], kr, j + 1)

RECURSIVE ice_key_sched_loop(_, _, _, _, _)
\* the loop over i of ice_key_sched_build; a finished subkey is stored as u32s
ice_key_sched_loop(sched, kb, n, keyrot, i) ==
    IF i >= 8 \/ <<sched, kb>> # <<sched, kb>> THEN <<sched, kb>>
    ELSE LET r == sched_words([q \in 0..2 |-> 0], kb, At(keyrot, i), 0)
         IN ice_key_sched_loop([sched EXCEPT ![n + i] = [q \in 0..2 |-> Bits(r[1][q])]],
                               r[2], n, keyrot, i + 1)

\* ice_key_sched_build: eight subkeys from n on; <<ik_sched, kb>> afterwards
ice_key_sched_build(sched, kb, n, keyrot) == ice_key_sched_loop(sched, kb, n, keyrot, 0)

\* kb[3 - j] = (key[o + j*2] << 8) | key[o + j*2 + 1], j = 0..3
key_block(key, o) ==
    [c \in 0..3 |-> At(key, o + (3 - c) * 2) * 256 + At(key, o + (3 - c) * 2 + 1)]

RECURSIVE ice_key_set_loop(_, _, _)
ice_key_set_loop(ik, key, i) ==
    IF i >= ik.ik_size \/ ik # ik THEN ik
    ELSE LET kb == key_block(key, i * 8)
             r1 == ice_key_sched_build(ik.ik_sched, kb, i * 8, ice_keyrot)
             r2 == ice_key_sched_build(r1[1], r1[2], ik.ik_rounds - 8 - (i * 8),
                                       ice_keyrot2)
         IN ice_key_set_loop([ik EXCEPT !.ik_sched = r2[1]], key, i + 1)

ice_key_set(ik, key) ==
    IF ik.ik_rounds = 8
    THEN [ik EXCEPT !.ik_sched =
              ice_key_sched_build(ik.ik_sched, key_block(key, 0), 0, ice_keyrot)[1]]
    ELSE ice_key_set_loop(ik, key, 0)

\* IceEncryption::new (the caller passes a key of n*8 bytes, which new asserts)
IceEncryption_new(n, key) == ice_key_set(ice_key_create(n), key)

\* encrypt_block_inplace_prepare / decrypt_block_inplace_prepare: <<l, r>>
block_inplace_prepare(text) ==
    << OR(OR(SHL(Bits(At(text, 0)), 24), SHL(Bits(At(text, 1)), 16)),
          OR(SHL(Bits(At(text, 2)), 8), Bits(At(text, 3)))),
       OR(OR(SHL(Bits(At(text, 4)), 24), SHL(Bits(At(text, 5)), 16)),
          OR(SHL(Bits(At(text, 6)), 8), Bits(At(text, 7)))) >>

Byte(w, i) == Val(AND(SHR(w, 8 * i), Bits(255)))

\* the last loop of encrypt_block_inplace and decrypt_block_inplace:
\* text[3 - i] = r & 0xff, text[7 - i] = l & 0xff, r >>= 8, l >>= 8
block_store(l, r) ==
    << Byte(r, 3), Byte(r, 2), Byte(r, 1), Byte(r, 0),
       Byte(l, 3), Byte(l, 2), Byte(l, 1), Byte(l, 0) >>

RECURSIVE encrypt_rounds(_, _, _, _)
encrypt_rounds(ik, l, r, i) ==
    IF i >= ik.ik_rounds \/ <<l, r>> # <<l, r>> THEN <<l, r>>
    ELSE LET l1 == XOR(l, ice_f(r, ik.ik_sched[i]))
             r1 == XOR(r, ice_f(l1, ik.ik_sched[i + 1]))
         IN encrypt_rounds(ik, l1, r1, i + 2)

encrypt_block_inplace(ik, lr) ==
    LET o == encrypt_rounds(ik, lr[1], lr[2], 0) IN block_store(o[1], o[2])

RECURSIVE decrypt_rounds(_, _, _, _)
decrypt_rounds(ik, l, r, i) ==
    IF i <= 0 \/ <<l, r>> # <<l, r>> THEN <<l, r>>
    ELSE LET l1 == XOR(l, ice_f(r, ik.ik_sched[i]))
             r1 == XOR(r, ice_f(l1, ik.ik_sched[i - 1]))
         IN decrypt_rounds(ik, l1, r1, i - 2)

decrypt_block_inplace(ik, lr) ==
    LET o == decrypt_rounds(ik, lr[1], lr[2], ik.ik_rounds - 1)
    IN block_store(o[1], o[2])

encrypt(ik, ptext) == encrypt_block_inplace(ik, block_inplace_prepare(ptext))
\* a decryption that runs the rounds of the encryption (the schedule forwards)
decrypt_forward(ik, ctext) == encrypt_block_inplace(ik, block_inplace_prepare(ctext))

decrypt(ik, ctext) == decrypt_block_inplace(ik, block_inplace_prepare(ctext))

RECURSIVE ConcatFrom(_, _)
ConcatFrom(ss, i) == IF i > Len(ss) THEN <<>> ELSE ss[i] \o ConcatFrom(ss, i + 1)

\* the concatenation of a sequence of sequences
Concat(ss) == ConcatFrom(ss, 1)

RECURSIVE encrypt_blocks(_, _, _)
\* the loop of encrypt_buffer_inplace from block i on
encrypt_blocks(ik, buffer, i) ==
    IF i >= Len(buffer) \div 8 THEN <<>>
    ELSE encrypt(ik, SubSeq(buffer, i * 8 + 1, (i + 1) * 8)) \o encrypt_blocks(ik, buffer, i + 1)

RECURSIVE decrypt_blocks(_, _, _)
\* the loop of decrypt_buffer_inplace from block i on
decrypt_blocks(ik, buffer, i) ==
    IF i >= Len(buffer) \div 8 THEN <<>>
    ELSE decrypt(ik, SubSeq(buffer, i * 8 + 1, (i + 1) * 8)) \o decrypt_blocks(ik, buffer, i + 1)

\* encrypt_buffer_inplace / decrypt_buffer_inplace: the buffer afterwards (the
\* callers pass a length that is a multiple of 8, which both assert)
encrypt_buffer_inplace(ik, buffer) == encrypt_blocks(ik, buffer, 0)
decrypt_buffer_inplace(ik, buffer) == decrypt_blocks(ik, buffer, 0)

(***************************************************************************)
(* bitbuf.rs: the little-endian bit reader over a byte buffer              *)
(***************************************************************************)
\* a reader is [data |-> the bytes, pos |-> the number of bits read so far];
\* a read gives [ok |-> TRUE, val |-> what was read, rd |-> the reader after it]
\* or RdErr when the buffer ends first
BitReader(data) == [data |-> data, pos |-> 0]

\* "let x = v;" of the program: Bind([x \in {v} |-> e]) is e for x = v, with v
\* worked out once
Bind(f) == f[CHOOSE v \in DOMAIN f : TRUE]
Rd(v, r) == [ok |-> TRUE, val |-> v, rd |-> r]
RdErr    == [ok |-> FALSE]

\* a Result without a reader: Ok(val) or Err
Ok(v) == [ok |-> TRUE, val |-> v]
Err   == [ok |-> FALSE, val |-> <<>>]

\* the bit at position p of the buffer, the low bit of a byte first
bit_at(data, p) == (data[(p \div 8) + 1] \div Pow2(p % 8)) % 2

\* the byte that starts at bit position p
byte_at(data, p) ==
    LET k == (p \div 8) + 1
        s == p % 8
    IN IF s = 0 THEN data[k]
       ELSE (data[k] \div Pow2(s)) + (data[k + 1] % Pow2(s)) * Pow2(8 - s)

RECURSIVE bits_value(_, _, _)
\* the number made of the n bits from position p on (n below 31)
bits_value(data, p, n) ==
    IF n = 0 THEN 0
    ELSE IF n >= 8 THEN byte_at(data, p) + 256 * bits_value(data, p + 8, n - 8)
    ELSE bit_at(data, p) + 2 * bits_value(data, p + 1, n - 1)

\* BitReader::read::<u32>(n) for n below 31, and read::<u8>(n)
read(r, n) ==
    IF r.pos + n > 8 * Len(r.data) THEN RdErr
    ELSE Rd(bits_value(r.data, r.pos, n), [r EXCEPT !.pos = r.pos + n])

\* BitReader::read_bit
read_bit(r) == LET b == read(r, 1) IN IF b.ok THEN Rd(b.val = 1, b.rd) ELSE RdErr

\* WireReader::read_char
read_char(r) == read(r, 8)

\* a u32 of the program is held as the i32 with the same 32 bits (so that
\* 2^31 and more stay within the numbers at hand): 0xFFFFFFFF is -1
I32(b0, b1, b2, b3) ==
    b0 + 256 * b1 + 65536 * b2 + 16777216 * (IF b3 >= 128 THEN b3 - 256 ELSE b3)

\* a < b on two u32 held that way
U32Lt(a, b) ==
    IF (a < 0) = (b < 0) THEN a < b ELSE b < 0

\* a <= b on two u32 held that way
U32Le(a, b) ==
    IF (a < 0) = (b < 0) THEN a <= b ELSE b < 0

\* byte k of a u32: (num >> 8k) as u8
U8(num, k) == (num \div Pow2(8 * k)) % 256

\* WireWriter::write_long and write_char on a byte boundary: the bytes written
write_long(num) == << U8(num, 0), U8(num, 1), U8(num, 2), U8(num, 3) >>
write_char(num) == << num >>

RECURSIVE write_int32_var(_)
\* WireWriter::write_int32_var: the bytes written (data >>= 7 on a u32 with
\* bit 31 set gives (data div 128) + 2^25 in the numbers used here)
write_int32_var(data) ==
    IF data >= 0 /\ data <= 127 THEN << data >>
    ELSE << (data % 128) + 128 >>
            \o write_int32_var(IF data < 0 THEN (data \div 128) + Pow2(25) ELSE data \div 128)

\* WireReader::read_long
read_long(r) ==
    IF r.pos + 32 > 8 * Len(r.data) THEN RdErr
    ELSE Rd(I32(byte_at(r.data, r.pos), byte_at(r.data, r.pos + 8),
                byte_at(r.data, r.pos + 16), byte_at(r.data, r.pos + 24)),
            [r EXCEPT !.pos = r.pos + 32])

\* BitReader::read_bytes into a buffer of n bytes: the bytes read
read_bytes(r, n) ==
    IF n > Len(r.data) \/ r.pos + 8 * n > 8 * Len(r.data) THEN RdErr
    ELSE Rd(IF r.pos % 8 = 0 THEN SubSeq(r.data, (r.pos \div 8) + 1, (r.pos \div 8) + n)
            ELSE SubSeq([i \in 1..n |-> byte_at(r.data, r.pos + 8 * (i - 1))], 1, n),
            [r EXCEPT !.pos = r.pos + 8 * n])

RECURSIVE read_int32_var_loop(_, _, _)
\* the loop of read_int32_var: res |= (data & 0x7F) << (7 * count); the fifth
\* group keeps its low four bits, the fourth of them being bit 31
read_int32_var_loop(r, res, count) ==
    IF count = 5 THEN RdErr
    ELSE Bind([c \in {read_char(r)} |->
         IF ~c.ok THEN RdErr
         ELSE Bind([d \in {c.val % 128} |->
              Bind([res1 \in {IF count < 4 THEN res + d * Pow2(7 * count)
                   ELSE ((res - ((d \div 8) % 2) * Pow2(30))
                             - ((d \div 8) % 2) * Pow2(30)) + (d % 8) * Pow2(28)} |->
                       IF c.val < 128 THEN Rd(res1, c.rd)
                       ELSE read_int32_var_loop(c.rd, res1, count + 1)])])])

\* a reader that takes its first group for the second
read_int32_var_from_second(r) == read_int32_var_loop(r, 0, 1)

\* WireReader::read_int32_var
read_int32_var(r) == read_int32_var_loop(r, 0, 0)

RECURSIVE utf8_from(_, _)
\* std::str::from_utf8 succeeds on the bytes of buf from index i on
utf8_from(buf, i) ==
    IF i > Len(buf) THEN TRUE
    ELSE LET b       == buf[i]
             cont(k) == i + k <= Len(buf) /\ buf[i + k] >= 128 /\ buf[i + k] <= 191
             snd(lo, hi) == i + 1 <= Len(buf) /\ buf[i + 1] >= lo /\ buf[i + 1] <= hi
         IN IF b < 128 THEN utf8_from(buf, i + 1)
            ELSE IF b >= 194 /\ b <= 223 THEN cont(1) /\ utf8_from(buf, i + 2)
            ELSE IF b = 224 THEN snd(160, 191) /\ cont(2) /\ utf8_from(buf, i + 3)
            ELSE IF b = 237 THEN snd(128, 159) /\ cont(2) /\ utf8_from(buf, i + 3)
            ELSE IF b >= 225 /\ b <= 239 THEN cont(1) /\ cont(2) /\ utf8_from(buf, i + 3)
            ELSE IF b = 240 THEN snd(144, 191) /\ cont(2) /\ cont(3) /\ utf8_from(buf, i + 4)
            ELSE IF b = 244 THEN snd(128, 143) /\ cont(2) /\ cont(3) /\ utf8_from(buf, i + 4)
            ELSE IF b >= 241 /\ b <= 243
                 THEN cont(1) /\ cont(2) /\ cont(3) /\ utf8_from(buf, i + 4)
            ELSE FALSE

RECURSIVE read_string_loop(_, _)
\* the loop of read_string: bytes up to the null byte
read_string_loop(r, buf) ==
    Bind([c \in {read_char(r)} |->
        IF ~c.ok THEN RdErr
        ELSE IF c.val = 0 THEN (IF utf8_from(buf, 1) THEN Rd(buf, c.rd) ELSE RdErr)
        ELSE read_string_loop(c.rd, Append(buf, c.val))])

\* WireReader::read_string
read_string(r) == read_string_loop(r, <<>>)

(***************************************************************************)
(* lzss.rs                                                                 *)
(***************************************************************************)
\* "LZSS", the four bytes of LZSS_HEADER in the order of the wire
LZSS_HEADER == <<76, 90, 83, 83>>

\* A result of Lzss::decode: kind is "ok" (val is the output), "err" (error
\* names the LzssError) or "panic"; produced is output.len() when it ended.
\* wrapped: the result is that of a build without overflow checks and a usize
\* has wrapped on the way (a build with the checks panics there).  ub: the
\* decoder has written through its pointer after the vector had moved, or read
\* its input past the end.
LzOut(kind, val, wrapped, ub) ==
    [kind |-> kind, val |-> val, wrapped |-> wrapped, ub |-> ub, error |-> "",
     produced |-> Len(val)]

LzErr(error, output, wrapped, ub) ==
    [kind |-> "err", val |-> <<>>, wrapped |-> wrapped, ub |-> ub, error |-> error,
     produced |-> Len(output)]

\* a decoder that returns its output whatever its length
lzss_finish_unchecked(output, fl) == LzOut("ok", output, fl.wrapped, fl.ub)

\* after the loop: "ensure it's the size we expected"
lzss_finish(output, fl) ==
    IF Len(output) # fl.size THEN LzErr("SizeMismatch", output, fl.wrapped, fl.ub)
    ELSE LzOut("ok", output, fl.wrapped, fl.ub)

RECURSIVE lzss_copy(_, _, _)
\* the loop over idx of a reference: the output afterwards, or <<-1>> for the
\* bad access
lzss_copy(output, idx, target_index_end) ==
    IF idx >= target_index_end THEN output
    ELSE IF idx >= Len(output) THEN <<-1>>
    ELSE lzss_copy(Append(output, output[idx + 1]), idx + 1, target_index_end)

RECURSIVE lzss_loop(_, _, _, _, _, _, _, _)
\* the loop of Lzss::decode.  ip: the bytes of input read so far; cap: the
\* capacity the output was allocated with (-1: more than any length here);
\* junk: the value of a byte of the output that was never written.
lzss_loop(input, ip, output, cap, get_cmd_byte, cmd_byte, junk, fl) ==
    LET need  == get_cmd_byte = 0
        cmd   == IF need /\ ip < Len(input) THEN input[ip + 1] ELSE cmd_byte
        ip1   == IF need THEN ip + 1 ELSE ip
        get1  == (get_cmd_byte + 1) % 8
    IN IF need /\ ip >= Len(input) THEN LzErr("IoError", output, fl.wrapped, fl.ub)
       ELSE IF cmd % 2 = 1
       THEN IF ip1 + 2 > Len(input) THEN LzErr("IoError", output, fl.wrapped, fl.ub)
            ELSE LET pos_byte   == input[ip1 + 1]
                     count_byte == input[ip1 + 2]
                     position   == pos_byte * 16 + (count_byte \div 16)
                     count      == (count_byte % 16) + 1
                     \* (output.len() - 1) - position, below 0 when it wraps
                     target_index == (Len(output) - 1) - position
                 IN IF count = 1 THEN lzss_finish(output, fl)
                    ELSE IF target_index < 0
                    THEN \* the wrapped range is empty when its end wraps too
                         IF target_index + count >= 0
                         THEN lzss_loop(input, ip1 + 2, output, cap, get1, cmd \div 2, junk,
                                        [fl EXCEPT !.wrapped = TRUE])
                         ELSE LzErr("BadData", output, TRUE, fl.ub)
                    ELSE LET out1 == lzss_copy(output, target_index, target_index + count)
                         IN IF out1 = <<-1>> THEN LzErr("BadData", output, fl.wrapped, fl.ub)
                            ELSE lzss_loop(input, ip1 + 2, out1, cap, get1, cmd \div 2,
                                           junk, fl)
       ELSE IF Len(output) = cap THEN lzss_finish(output, fl)
       \* the byte is read without a check, then input[1..] panics
       ELSE IF ip1 >= Len(input) THEN LzOut("panic", <<>>, fl.wrapped, TRUE)
       \* past the capacity the vector has moved and out_ptr is left behind
       ELSE IF cap >= 0 /\ Len(output) > cap
       THEN lzss_loop(input, ip1 + 1, Append(output, junk), cap, get1, cmd \div 2, junk,
                      [fl EXCEPT !.ub = TRUE])
       ELSE lzss_loop(input, ip1 + 1, Append(output, input[ip1 + 1]), cap, get1,
                      cmd \div 2, junk, fl)

\* Lzss::decode
Lzss_decode(input, junk) ==
    IF Len(input) < 4 THEN LzErr("IoError", <<>>, FALSE, FALSE)
    ELSE IF SubSeq(input, 1, 4) # LZSS_HEADER THEN LzErr("InvalidHeader", <<>>, FALSE, FALSE)
    ELSE IF Len(input) < 8 THEN LzErr("IoError", <<>>, FALSE, FALSE)
    ELSE LET actual_size == I32(input[5], input[6], input[7], input[8])
         IN lzss_loop(input, 8, <<>>, actual_size, 0, 0, junk,
                      [size |-> actual_size, wrapped |-> FALSE, ub |-> FALSE])

(***************************************************************************)
(* netmessages.rs and channel.rs: the messages of a payload                *)
(***************************************************************************)
\* the values of the enums NET_Messages and SVC_Messages that bind matches
NET_Messages == {0, 1, 2, 3, 4, 5, 6, 7, 100}
SVC_Messages == (8..31) \cup (33..36) \cup {38}

RECURSIVE proto_varint_end(_, _, _)
\* the index after the varint that starts at index i of buf, 0 if there is none
proto_varint_end(buf, i, count) ==
    IF i > Len(buf) \/ count = 10 THEN 0
    ELSE IF buf[i] < 128 THEN i + 1
    ELSE proto_varint_end(buf, i + 1, count + 1)

RECURSIVE proto_fields_from(_, _)
\* protobuf::parse_from_bytes accepts the fields of buf from index i on: every
\* field is a key and a value of the key's wire type, whole within buf
proto_fields_from(buf, i) ==
    IF i > Len(buf) THEN TRUE
    ELSE LET k == proto_varint_end(buf, i, 0)
             wire_type == buf[i] % 8
             number_is_zero == buf[i] \div 8 = 0 /\ k = i + 1
         IN IF k = 0 \/ number_is_zero THEN FALSE
            ELSE IF wire_type = 0
                 THEN LET e == proto_varint_end(buf, k, 0)
                      IN e # 0 /\ proto_fields_from(buf, e)
            ELSE IF wire_type = 1 THEN k + 8 <= Len(buf) + 1 /\ proto_fields_from(buf, k + 8)
            ELSE IF wire_type = 5 THEN k + 4 <= Len(buf) + 1 /\ proto_fields_from(buf, k + 4)
            ELSE IF wire_type = 2
                 THEN LET e == proto_varint_end(buf, k, 0)
                          n == IF e = k + 1 THEN buf[k]
                               ELSE IF e = k + 2 THEN (buf[k] % 128) + 128 * buf[k + 1]
                               ELSE Len(buf) + 1
                      IN e # 0 /\ e + n <= Len(buf) + 1 /\ proto_fields_from(buf, e + n)
            ELSE FALSE

\* protoutil::deserialize
deserialize(bytes) == proto_fields_from(bytes, 1)

\* a bind that takes every id
bind_any_id(id, buffer) ==
    IF deserialize(buffer) THEN Ok([id |-> id, len |-> Len(buffer)]) ELSE Err

\* NetMessage::bind: the message (its id and the length of the body it was
\* made from), or Err for an id outside both enums and for a body that does
\* not deserialize
bind(id, buffer) ==
    IF id \in NET_Messages \cup SVC_Messages /\ deserialize(buffer)
    THEN Ok([id |-> id, len |-> Len(buffer)])
    ELSE Err

RECURSIVE skip_nops(_)
\* The reader after the NOPs that runs of 32 zero bytes from r on hold: the
\* loop of read_messages takes each zero byte as a message number 0 and goes
\* on to the next.
skip_nops(r) ==
    IF /\ r.pos + 8 * 32 <= 8 * Len(r.data)
       /\ \A k \in 0..31 : byte_at(r.data, r.pos + 8 * k) = 0
    THEN skip_nops([r EXCEPT !.pos = r.pos + 8 * 32])
    ELSE r

RECURSIVE read_messages_loop(_, _)
\* the loop of read_messages: [ok, val |-> out_messages, rd]
read_messages_loop(r, out_messages) ==
    Bind([message_number_e \in {read_int32_var(r)} |->
        IF ~message_number_e.ok THEN Rd(out_messages, r)
        ELSE IF message_number_e.val = 0
             THEN read_messages_loop(skip_nops(message_number_e.rd), out_messages)
        ELSE Bind([message_size \in {read_int32_var(message_number_e.rd)} |->
             IF ~message_size.ok THEN RdErr
             \* a size with bit 31 set is beyond any buffer
             ELSE IF message_size.val < 0 THEN RdErr
             ELSE Bind([body \in {read_bytes(message_size.rd, message_size.val)} |->
                  IF ~body.ok THEN RdErr
                  ELSE Bind([message \in {bind(message_number_e.val, body.val)} |->
                       read_messages_loop(body.rd,
                           IF message.ok THEN Append(out_messages, message.val)
                           ELSE out_messages)])])])])

\* NetChannel::read_messages
read_messages(r) == read_messages_loop(r, <<>>)

(***************************************************************************)
(* subchannel.rs: the reassembly of a subchannel stream                    *)
(***************************************************************************)
MAX_FILE_SIZE == 67108863
FRAGMENT_SIZE == 256

\* Option: None and Some(v)
None    == [some |-> FALSE]
Some(x) == [some |-> TRUE, v |-> x]

\* SubChannel::new
SubChannel_new ==
    [file |-> None, compressed |-> None, is_replay |-> FALSE, payload_size |-> 0,
     transfer |-> None, in_reliable_state |-> FALSE]

\* TransferBuffer::new.  slot and written are not fields of the program: they
\* record the subchannel index of the frame that made the transfer and the
\* fragments that chunks have written into the buffer, for the properties that
\* speak of them.
TransferBuffer_new(transfer_size, slot) ==
    [buffer |-> SubSeq([i \in 1..transfer_size |-> 0], 1, transfer_size),
     num_fragments |-> (transfer_size + FRAGMENT_SIZE - 1) \div FRAGMENT_SIZE,
     num_fragments_ack |-> 0,
     slot |-> slot,
     written |-> {}]

\* What TransferBuffer::read_fragments gives: kind ("ok", "err" or "panic"), t
\* (the transfer afterwards), complete (what Ok holds), rd (the reader
\* afterwards)
FragOut(kind, t, complete, rd) == [kind |-> kind, t |-> t, complete |-> complete, rd |-> rd]

\* TransferBuffer::read_fragments on the transfer t
read_fragments(t, start_frag, num_fragments, r) ==
    LET total0     == num_fragments * FRAGMENT_SIZE
        last_recv_fragment == start_frag + num_fragments
        is_last    == last_recv_fragment = t.num_fragments
        final_part == FRAGMENT_SIZE - (Len(t.buffer) % FRAGMENT_SIZE)
        start      == start_frag * FRAGMENT_SIZE
    IN \* below 0: the usize has wrapped (a build with overflow checks panics
       \* at the subtraction, one without them at the slice that follows)
       Bind([total_recv_length \in {IF is_last /\ final_part < FRAGMENT_SIZE THEN total0 - final_part ELSE total0} |->
       IF ~is_last /\ last_recv_fragment > t.num_fragments THEN FragOut("err", t, FALSE, r)
       ELSE IF total_recv_length < 0 \/ start + total_recv_length > Len(t.buffer)
            THEN FragOut("panic", t, FALSE, r)
       ELSE Bind([bytes \in {read_bytes(r, total_recv_length)} |->
            IF ~bytes.ok THEN FragOut("err", t, FALSE, r)
            ELSE FragOut("ok",
                         [t EXCEPT !.buffer = SubSeq(t.buffer, 1, start) \o bytes.val
                                        \o SubSeq(t.buffer, start + total_recv_length + 1,
                                                  Len(t.buffer)),
                                   !.num_fragments_ack = t.num_fragments_ack + num_fragments,
                                   !.written = t.written
                                       \cup (start_frag..(last_recv_fragment - 1))],
                         is_last, bytes.rd)])])

\* What the readers of a transfer's header give: [ok, sub |-> the subchannel
\* afterwards, rd |-> the reader afterwards]
InfoOut(ok, sub, rd) == [ok |-> ok, sub |-> sub, rd |-> rd]

\* SubChannel::read_file_info
read_file_info(sub, r) ==
    Bind([is_file \in {read_bit(r)} |->
    IF ~is_file.ok THEN InfoOut(FALSE, sub, r)
    ELSE IF ~is_file.val THEN InfoOut(TRUE, sub, is_file.rd)
    ELSE Bind([transfer_id \in {read_long(is_file.rd)} |->
         IF ~transfer_id.ok THEN InfoOut(FALSE, sub, r)
         ELSE Bind([filename \in {read_string(transfer_id.rd)} |->
              IF ~filename.ok THEN InfoOut(FALSE, sub, r)
              ELSE Bind([sub1 \in {[sub EXCEPT !.file = Some([transfer_id |-> transfer_id.val,
                                                   filename |-> filename.val])]} |->
                   Bind([is_replay \in {read_bit(filename.rd)} |->
                        IF ~is_replay.ok THEN InfoOut(FALSE, sub1, r)
                        ELSE InfoOut(TRUE,
                                     IF is_replay.val THEN [sub1 EXCEPT !.is_replay = TRUE]
                                     ELSE sub1,
                                     is_replay.rd)])])])])])

\* SubChannel::read_compress_info
read_compress_info(sub, r) ==
    Bind([compressed \in {read_bit(r)} |->
    IF ~compressed.ok THEN InfoOut(FALSE, sub, r)
    ELSE IF ~compressed.val THEN InfoOut(TRUE, sub, compressed.rd)
    ELSE Bind([uncompressed_size \in {read(compressed.rd, 26)} |->
         IF ~uncompressed_size.ok THEN InfoOut(FALSE, sub, r)
         ELSE InfoOut(TRUE, [sub EXCEPT !.compressed = Some(uncompressed_size.val)],
                      uncompressed_size.rd)])])

\* TransferBuffer::decompress_payload: [kind |-> "ok", "err" or "panic", t,
\* wrapped, ub] (the last two as Lzss_decode gives them)
decompress_payload(t, expected_length, junk) ==
    Bind([decompressed \in {Lzss_decode(t.buffer, junk)} |->
        [kind |-> IF decompressed.kind # "ok" THEN decompressed.kind
                  ELSE IF Len(decompressed.val) # expected_length THEN "err" ELSE "ok",
         t |-> IF decompressed.kind = "ok" /\ Len(decompressed.val) = expected_length
               THEN [t EXCEPT !.buffer = decompressed.val] ELSE t,
         wrapped |-> decompressed.wrapped, ub |-> decompressed.ub]])

\* SubChannel::complete_transfer: [kind, sub, payload |-> the transfer taken
\* out of the subchannel, wrapped, ub]
complete_transfer(sub, junk) ==
    Bind([d \in {IF sub.compressed.some
         THEN decompress_payload(sub.transfer.v, sub.compressed.v, junk)
         ELSE [kind |-> "ok", t |-> sub.transfer.v, wrapped |-> FALSE, ub |-> FALSE]} |->
             IF d.kind # "ok"
             THEN [kind |-> d.kind, sub |-> [sub EXCEPT !.transfer = Some(d.t)],
                   payload |-> None, wrapped |-> d.wrapped, ub |-> d.ub]
             ELSE [kind |-> "ok", sub |-> [sub EXCEPT !.transfer = None],
                   payload |-> Some(d.t), wrapped |-> d.wrapped, ub |-> d.ub]])

\* What read_subchannel_data gives:
\*   kind     "ok", "err" or "panic"
\*   sub      the subchannel afterwards (whatever the kind)
\*   rd       the reader afterwards
\*   payload  Some(transfer) when Ok holds a completed transfer
\*   note     what the call has met, for the properties that speak of it:
\*            single, created (a transfer was made), payload_size, nbytes (the
\*            bytes of payload read from the frame), complete
SubOut(kind, sub, rd, payload, note, wrapped, ub) ==
    [kind |-> kind, sub |-> sub, rd |-> rd, payload |-> payload, note |-> note,
     wrapped |-> wrapped, ub |-> ub]

SubNote(single, created, payload_size, nbytes, complete) ==
    [single |-> single, created |-> created, payload_size |-> payload_size,
     nbytes |-> nbytes, complete |-> complete]

\* a header read without "check for an invalid fragment"
read_transfer_header_any_size(sub, r, single, slot) ==
    Bind([f \in {IF single THEN InfoOut(TRUE, sub, r) ELSE read_file_info(sub, r)} |->
    IF ~f.ok THEN f
    ELSE Bind([c \in {read_compress_info(f.sub, f.rd)} |->
         IF ~c.ok THEN c
         ELSE Bind([size \in {read(c.rd, IF single THEN 18 ELSE 26)} |->
              IF ~size.ok THEN InfoOut(FALSE, c.sub, r)
              ELSE InfoOut(TRUE,
                           [c.sub EXCEPT !.payload_size = size.val,
                                         !.transfer = Some(TransferBuffer_new(size.val, slot))],
                           size.rd)])])])

\* a header read that goes on with the transfer in flight, if there is one,
\* where the program makes a new one
read_transfer_header_reusing(sub, r, single, slot) ==
    Bind([h \in {read_transfer_header_any_size(sub, r, single, slot)} |->
        IF h.ok /\ sub.transfer.some
        THEN InfoOut(TRUE, [h.sub EXCEPT !.transfer = sub.transfer], h.rd)
        ELSE h])

\* read_subchannel_data from "are we reading from the first packet?" to the
\* creation of the transfer, for start_frag = 0
read_transfer_header(sub, r, single, slot) ==
    Bind([f \in {IF single THEN InfoOut(TRUE, sub, r) ELSE read_file_info(sub, r)} |->
    IF ~f.ok THEN f
    ELSE Bind([c \in {read_compress_info(f.sub, f.rd)} |->
         IF ~c.ok THEN c
         ELSE Bind([size \in {read(c.rd, IF single THEN 18 ELSE 26)} |->
              IF ~size.ok THEN InfoOut(FALSE, c.sub, r)
              ELSE Bind([sub1 \in {[c.sub EXCEPT !.payload_size = size.val]} |->
                   IF sub1.payload_size > MAX_FILE_SIZE THEN InfoOut(FALSE, sub1, r)
                   ELSE IF sub1.payload_size = 0 THEN InfoOut(FALSE, sub1, r)
                   ELSE IF sub1.compressed.some /\ sub1.compressed.v > MAX_FILE_SIZE
                        THEN InfoOut(FALSE, sub1, r)
                   ELSE InfoOut(TRUE,
                                [sub1 EXCEPT !.transfer =
                                    Some(TransferBuffer_new(sub1.payload_size, slot))],
                                size.rd)])])])])

\* read_subchannel_data from "check for no transfer" on
read_transfer_data(sub, r, single, created, start_frag, num_frags, junk) ==
    IF ~sub.transfer.some
    THEN SubOut("err", sub, r, None, SubNote(single, created, sub.payload_size, 0, FALSE),
                FALSE, FALSE)
    ELSE Bind([f \in {read_fragments(sub.transfer.v, start_frag, num_frags, r)} |->
         IF f.kind # "ok"
         THEN SubOut(f.kind, sub, r, None,
                     SubNote(single, created, sub.payload_size, 0, FALSE), FALSE, FALSE)
         ELSE Bind([sub1 \in {[sub EXCEPT !.transfer = Some(f.t),
                               !.in_reliable_state = ~sub.in_reliable_state]} |->
              Bind([n \in {(f.rd.pos - r.pos) \div 8} |->
              IF ~f.complete
              THEN SubOut("ok", sub1, f.rd, None,
                          SubNote(single, created, sub.payload_size, n, FALSE),
                          FALSE, FALSE)
              ELSE Bind([c \in {complete_transfer(sub1, junk)} |->
                   SubOut(c.kind, c.sub, f.rd, c.payload,
                          SubNote(single, created, sub.payload_size, n, c.kind = "ok"),
                          c.wrapped, c.ub)])])])])

\* SubChannel::read_subchannel_data
read_subchannel_data(sub, r, slot, junk) ==
    Bind([b \in {read_bit(r)} |->
    IF ~b.ok THEN SubOut("err", sub, r, None,
                         SubNote(FALSE, FALSE, sub.payload_size, 0, FALSE), FALSE, FALSE)
    ELSE Bind([single \in {~b.val} |->
         Bind([start_frag \in {IF single THEN Rd(0, b.rd) ELSE read(b.rd, 18)} |->
         Bind([num_frags \in {IF single THEN Rd(0, b.rd)
              ELSE IF start_frag.ok THEN read(start_frag.rd, 3) ELSE RdErr} |->
         IF ~start_frag.ok \/ ~num_frags.ok
         THEN SubOut("err", sub, r, None,
                     SubNote(single, FALSE, sub.payload_size, 0, FALSE), FALSE, FALSE)
         ELSE Bind([h \in {IF start_frag.val = 0
                   THEN read_transfer_header(sub, num_frags.rd, single, slot)
                   ELSE InfoOut(TRUE, sub, num_frags.rd)} |->
              IF ~h.ok
              THEN SubOut("err", h.sub, r, None,
                          SubNote(single, FALSE, h.sub.payload_size, 0, FALSE),
                          FALSE, FALSE)
              ELSE read_transfer_data(h.sub, h.rd, single, start_frag.val = 0,
                                      start_frag.val, num_frags.val, junk)])])])])])

\* TransferBuffer::unwrap_payload: the assertion holds
unwrap_payload_ok(t) == t.num_fragments = t.num_fragments_ack

(***************************************************************************)
(* channel.rs: the ICE envelope of a datagram                              *)
(***************************************************************************)
\* NetChannel::get_encryption_key: "CSGO" and the bytes of the host version
get_encryption_key(host_version) ==
    LET b(k) == (host_version \div Pow2(k)) % 256
    IN << 67, 83, 71, 79, b(0), b(8), b(16), b(24),
          b(2), b(10), b(18), b(26), b(4), b(12), b(20), b(28) >>

\* NetChannel::upgrade: the cipher of the channel
upgrade_crypt(host_version) == IceEncryption_new(2, get_encryption_key(host_version))

\* a size field left in the order of the host
bswap_none(le_in) == le_in

\* NetChannel::bswap
bswap(le_in) == I32(U8(le_in, 3), U8(le_in, 2), U8(le_in, 1), U8(le_in, 0))

\* a padding that adds nothing to a buffer that is already whole blocks
num_pad_bytes_mod(len) == (8 - ((len + 5) % 8)) % 8

\* encrypt_packet: the number of padding bytes for a datagram of len bytes
num_pad_bytes(len) == 8 - ((len + 5) % 8)

\* encrypt_packet up to the call of the cipher: the buffer it has written
encrypt_packet_buffer(datagram) ==
    LET pad == num_pad_bytes(Len(datagram))
    IN <<pad>> \o [i \in 1..pad |-> 0] \o write_long(bswap(Len(datagram)))
             \o datagram

\* encrypt_packet: what goes on the wire
encrypt_packet(ik, datagram) == encrypt_buffer_inplace(ik, encrypt_packet_buffer(datagram))

\* BitReader<BigEndian>::read_signed(32) at the start of packet, as an i32
\* (an i32 of the program is the same number here; a u32 of 2^31 and more is
\* held as the i32 with the same 32 bits)
read_signed_be32(packet) ==
    ((IF packet[1] >= 128 THEN packet[1] - 256 ELSE packet[1]) * 16777216)
        + packet[2] * 65536 + packet[3] * 256 + packet[4]

\* decrypt_packet after the call of the cipher, on the decrypted datagram
decrypt_packet_buffer(datagram) ==
    LET garbage == datagram[1]
    IN IF garbage >= 128 \/ garbage + 1 >= Len(datagram) THEN Err
       ELSE LET packet == SubSeq(datagram, garbage + 2, Len(datagram))
            IN IF Len(packet) < 4 THEN Err
               ELSE LET size_on_wire == read_signed_be32(packet)
                    IN \* a negative i32 is a usize above any length
                       IF size_on_wire < 0 \/ size_on_wire > Len(packet) - 4 THEN Err
                       ELSE Ok(SubSeq(packet, 5, size_on_wire + 4))

(***************************************************************************)
(* channel.rs: the receiving side of a NetChannel                          *)
(***************************************************************************)
PACKET_CHOKED   == 16
PACKET_RELIABLE == 1

\* the sentinels as i32: 0xFFFFFFFE, 0xFFFFFFFD, 0xFFFFFFFF
NET_HEADER_FLAG_SPLITPACKET      == -2
NET_HEADER_FLAG_COMPRESSEDPACKET == -3
CONNECTIONLESS_HEADER            == -1

\* reliable_state ^ (1 << subchan_i) on a u8
toggle_bit(state, i) ==
    IF (state \div Pow2(i)) % 2 = 1 THEN state - Pow2(i) ELSE state + Pow2(i)

\* add_messages without the return for an empty set of messages
add_messages_unguarded(cur, messages) ==
    Some((IF cur.some THEN cur.v ELSE <<>>) \o messages)

\* NetDatagram::add_messages on the field messages (an Option) of the datagram
add_messages(cur, messages) ==
    IF Len(messages) = 0 THEN cur
    ELSE Some((IF cur.some THEN cur.v ELSE <<>>) \o messages)

\* process_subchannel_payload on a completed transfer of stream stream_i
process_subchannel_payload(st, transfer, stream_i) ==
    IF ~unwrap_payload_ok(transfer) THEN [st EXCEPT !.kind = "panic"]
    ELSE IF stream_i = 0
    THEN Bind([m \in {read_messages(BitReader(transfer.buffer))} |->
              IF ~m.ok THEN [st EXCEPT !.kind = "err"]
              ELSE [st EXCEPT !.messages = add_messages(st.messages, m.val)]])
    ELSE IF stream_i = 1 THEN [st EXCEPT !.kind = "panic"]
    ELSE st

\* what read_stream notes of a call of read_subchannel_data: the stream, the
\* subchannel index of the frame, the slot of the transfer that was pending
\* (-1 if none), and what the call gave (of a completed transfer its counts,
\* the fragments written and the buffer)
StreamNote(stream_i, subchan_i, before, buf) ==
    [stream |-> stream_i, subchan_i |-> subchan_i,
     pending_slot |-> IF before.some THEN before.v.slot ELSE -1,
     kind |-> buf.kind, note |-> buf.note, compressed |-> buf.sub.compressed,
     num_fragments |-> IF buf.payload.some THEN buf.payload.v.num_fragments ELSE 0,
     num_fragments_ack |-> IF buf.payload.some THEN buf.payload.v.num_fragments_ack ELSE 0,
     len |-> IF buf.payload.some THEN Len(buf.payload.v.buffer) ELSE 0,
     written |-> IF buf.payload.some THEN buf.payload.v.written ELSE {},
     payload |-> IF buf.payload.some THEN buf.payload.v.buffer ELSE <<>>]

\* the body of the loop over the streams in parse_datagram
read_stream(st, stream_i, subchan_i, junk) ==
    IF st.kind # "ok" THEN st
    ELSE Bind([updated \in {read_bit(st.rd)} |->
         IF ~updated.ok THEN [st EXCEPT !.kind = "err"]
         ELSE IF ~updated.val THEN [st EXCEPT !.rd = updated.rd]
         ELSE Bind([buf \in {read_subchannel_data(st.subchannels[stream_i], updated.rd, subchan_i,
                                        junk)} |->
              Bind([st1 \in {[st EXCEPT !.subchannels[stream_i] = buf.sub,
                              !.rd = buf.rd,
                              !.notes = Append(st.notes,
                                               StreamNote(stream_i, subchan_i,
                                                          st.subchannels[stream_i].transfer,
                                                          buf)),
                              !.wrapped = st.wrapped \/ buf.wrapped,
                              !.ub = st.ub \/ buf.ub]} |->
                       IF buf.kind # "ok" THEN [st1 EXCEPT !.kind = buf.kind]
                       ELSE IF ~buf.payload.some THEN st1
                       ELSE process_subchannel_payload(st1, buf.payload.v, stream_i)])])])

RECURSIVE read_streams(_, _, _, _)
\* for stream_i in 0..2
read_streams(st, stream_i, subchan_i, junk) ==
    IF stream_i = 2 THEN st
    ELSE read_streams(read_stream(st, stream_i, subchan_i, junk), stream_i + 1, subchan_i,
                      junk)

\* NetDatagram::new: the header of a datagram
NetHeader(sequence_ack, sequence_in, flags, checksum, reliable_state, choked) ==
    [sequence_ack |-> sequence_ack, sequence_in |-> sequence_in, flags |-> flags,
     checksum |-> checksum, reliable_state |-> reliable_state, choked |-> choked]

NoHeader == NetHeader(0, 0, 0, 0, 0, 0)

\* The state st of parse_datagram while it reads the subchannel section and
\* the messages: kind ("ok" while it goes on), the subchannels, the reader, the
\* field messages of out_datagram (None until add_messages has added some), for
\* each stream that was updated a
\* StreamNote, the subchannel index of the frame; wrapped and ub as the LZSS
\* decoder gives them.
ParseState(ch, r, lz) ==
    [kind |-> "ok", subchannels |-> ch.subchannels, rd |-> r, messages |-> None,
     notes |-> <<>>, subchan_i |-> 0, wrapped |-> lz.wrapped, ub |-> lz.ub]

\* What parse_datagram gives: kind ("ok", "err", "panic"), the subchannels and
\* reliable_state afterwards (toggled: the subchannel section was read to its
\* end), the datagram (header, messages), sequenced (the header was read up to
\* the check of the sequence number), notes, wrapped, ub.
ParseOut(kind, ch, st, header, sequenced, toggled) ==
    [kind |-> kind,
     subchannels |-> st.subchannels,
     reliable_state |-> IF toggled THEN toggle_bit(ch.reliable_state, st.subchan_i)
                        ELSE ch.reliable_state,
     header |-> header, messages |-> st.messages, sequenced |-> sequenced,
     notes |-> st.notes, wrapped |-> st.wrapped, ub |-> st.ub]

\* parse_datagram from the check of the sequence number on
parse_body(ch, r, header, lz) ==
    IF U32Le(header.sequence_in, ch.in_sequence)
    THEN ParseOut("err", ch, ParseState(ch, r, lz), header, TRUE, FALSE)
    ELSE Bind([reliable \in {(header.flags % 2) = PACKET_RELIABLE} |->
         Bind([subchan_i \in {IF reliable THEN read(r, 3) ELSE Rd(0, r)} |->
         IF ~subchan_i.ok THEN ParseOut("err", ch, ParseState(ch, r, lz), header, TRUE, FALSE)
         ELSE Bind([st2 \in {IF reliable
                   THEN read_streams([ParseState(ch, subchan_i.rd, lz)
                                          EXCEPT !.subchan_i = subchan_i.val],
                                     0, subchan_i.val, lz.junk)
                   ELSE ParseState(ch, subchan_i.rd, lz)} |->
              IF st2.kind # "ok" THEN ParseOut(st2.kind, ch, st2, header, TRUE, FALSE)
              ELSE Bind([messages \in {read_messages(st2.rd)} |->
                   IF ~messages.ok THEN ParseOut("err", ch, st2, header, TRUE, reliable)
                   ELSE ParseOut("ok", ch,
                                 [st2 EXCEPT !.messages =
                                      add_messages(st2.messages, messages.val)],
                                 header, TRUE, reliable)])])])])

\* parse_datagram from the header of the (decompressed) packet on: r is the
\* reader after sequence_in
parse_header(ch, r, sequence_in, lz) ==
    IF sequence_in = CONNECTIONLESS_HEADER
    THEN ParseOut("panic", ch, ParseState(ch, r, lz), NoHeader, FALSE, FALSE)
    ELSE Bind([sequence_ack \in {read_long(r)} |->
         Bind([flags \in {IF sequence_ack.ok THEN read_char(sequence_ack.rd) ELSE RdErr} |->
         Bind([checksum \in {IF flags.ok THEN read(flags.rd, 16) ELSE RdErr} |->
         Bind([reliable_state \in {IF checksum.ok THEN read_char(checksum.rd) ELSE RdErr} |->
         Bind([choked \in {IF ~reliable_state.ok THEN RdErr
              ELSE IF (flags.val \div PACKET_CHOKED) % 2 = 1
                   THEN read_char(reliable_state.rd)
              ELSE Rd(0, reliable_state.rd)} |->
         IF ~choked.ok THEN ParseOut("err", ch, ParseState(ch, r, lz), NoHeader, FALSE, FALSE)
         ELSE parse_body(ch, choked.rd,
                         NetHeader(sequence_ack.val, sequence_in, flags.val, checksum.val,
                                   reliable_state.val, choked.val), lz)])])])])])

\* a decoder handed the whole packet, the four bytes of the flag included
lzss_input_whole(packet_data) == packet_data

\* parse_datagram: &packet_data[4..], what it hands to Lzss::decode
lzss_input(packet_data) == SubSeq(packet_data, 5, Len(packet_data))

\* NetChannel::parse_datagram on the channel ch = [in_sequence, reliable_state,
\* subchannels]
parse_datagram(ch, packet_data, junk) ==
    Bind([first \in {read_long(BitReader(packet_data))} |->
    Bind([is_compressed \in {first.ok /\ first.val = NET_HEADER_FLAG_COMPRESSEDPACKET} |->
    Bind([decompressed \in {IF is_compressed THEN Lzss_decode(lzss_input(packet_data), junk)
         ELSE LzOut("ok", packet_data, FALSE, FALSE)} |->
    Bind([lz \in {[wrapped |-> decompressed.wrapped, ub |-> decompressed.ub, junk |-> junk]} |->
    IF ~first.ok
    THEN ParseOut("err", ch, ParseState(ch, BitReader(packet_data), lz), NoHeader,
                  FALSE, FALSE)
    ELSE IF decompressed.kind # "ok"
    THEN ParseOut(decompressed.kind, ch, ParseState(ch, BitReader(packet_data), lz),
                  NoHeader, FALSE, FALSE)
    ELSE Bind([sequence_in \in {IF is_compressed THEN read_long(BitReader(decompressed.val)) ELSE first} |->
         IF ~sequence_in.ok
         THEN ParseOut("err", ch, ParseState(ch, BitReader(packet_data), lz), NoHeader,
                       FALSE, FALSE)
         ELSE parse_header(ch, sequence_in.rd, sequence_in.val, lz)])])])])])

\* What read_data gives for the channel ch and what recv_message brings, d:
\* [received |-> FALSE when recv_message fails,
\*  sentinel |-> "none", "split" or "connectionless" (what the first four bytes
\*               are as received),
\*  buf |-> the received bytes as decrypt_buffer_inplace leaves them]
ReadOut(result, ch, p, lied) ==
    [result |-> result,
     in_sequence |-> IF result = "Ok" THEN p.header.sequence_in ELSE ch.in_sequence,
     out_sequence_ack |-> IF result = "Ok" THEN p.header.sequence_ack
                          ELSE ch.out_sequence_ack,
     reliable_state |-> p.reliable_state,
     subchannels |-> p.subchannels,
     header |-> p.header, messages |-> p.messages, sequenced |-> p.sequenced,
     notes |-> p.notes, lied |-> lied, wrapped |-> p.wrapped, ub |-> p.ub]

\* parse_datagram has not run
Unparsed(ch) ==
    [reliable_state |-> ch.reliable_state, subchannels |-> ch.subchannels,
     header |-> NoHeader, messages |-> None, sequenced |-> FALSE, notes |-> <<>>,
     wrapped |-> FALSE, ub |-> FALSE]

\* pad_len + 1 + 4 + payload_len differs from the length of the datagram
envelope_lies(buf) ==
    /\ Len(buf) >= 1
    /\ buf[1] + 5 <= Len(buf)
    /\ buf[1] + 1 + 4 + read_signed_be32(SubSeq(buf, buf[1] + 2, buf[1] + 5)) # Len(buf)

\* NetChannel::read_data
read_data(ch, d, junk) ==
    IF ~d.received THEN ReadOut("Err", ch, Unparsed(ch), FALSE)
    ELSE IF d.sentinel # "none" THEN ReadOut("Panic", ch, Unparsed(ch), FALSE)
    ELSE IF Len(d.buf) < 4 \/ Len(d.buf) % 8 # 0
    THEN ReadOut("Err", ch, Unparsed(ch), envelope_lies(d.buf))
    ELSE Bind([packet_data \in {decrypt_packet_buffer(d.buf)} |->
         IF ~packet_data.ok THEN ReadOut("Err", ch, Unparsed(ch), envelope_lies(d.buf))
         ELSE Bind([p \in {parse_datagram(ch, packet_data.val, junk)} |->
              ReadOut(IF p.kind = "ok" THEN "Ok"
                      ELSE IF p.kind = "err" THEN "Err" ELSE "Panic",
                      ch, p, envelope_lies(d.buf))])])

(***************************************************************************)
(* channel.rs: the sending side of a NetChannel                            *)
(***************************************************************************)
\* the polynomial 0xEDB88320 of CRC-32 and 0xFFFFFFFF, as sets of bits
CRC_POLY == Bits(1840808736) \cup {31}
CRC_ONES == 0..31

RECURSIVE crc32_shift(_, _)
\* k steps of the register: c = (c >> 1) ^ (poly if c & 1)
crc32_shift(c, k) ==
    IF k = 0 \/ c # c THEN c
    ELSE crc32_shift(IF 0 \in c THEN XOR(SHR(c, 1), CRC_POLY) ELSE SHR(c, 1), k - 1)

RECURSIVE crc32_update(_, _, _)
crc32_update(c, bytes, i) ==
    IF i > Len(bytes) \/ c # c THEN c
    ELSE crc32_update(crc32_shift(XOR(c, Bits(bytes[i])), 8), bytes, i + 1)

\* crc32fast::Hasher over bytes: the CRC-32 as a set of bits
crc32(bytes) == XOR(crc32_update(CRC_ONES, bytes, 1), CRC_ONES)

\* the low 16 bits of the CRC-32 of scratch[11..], not folded with the high
low16_checksum(scratch) == Val(AND(crc32(SubSeq(scratch, 12, Len(scratch))), 0..15))

\* calc_scratch_checksum: (checksum as u16) ^ ((checksum >> 16) as u16) of the
\* CRC-32 of scratch[11..]
shortened_checksum(scratch) ==
    LET checksum == crc32(SubSeq(scratch, 12, Len(scratch)))
    IN Val(XOR(AND(checksum, 0..15), SHR(checksum, 16)))

\* write_datagram on the channel ch = [out_sequence, in_sequence, choked_num,
\* reliable_state]: the scratch buffer handed to encrypt_packet
write_datagram_scratch(ch, send_buffer) ==
    LET flags   == IF ch.choked_num > 0 THEN PACKET_CHOKED ELSE 0
        scratch == write_long(ch.out_sequence) \o write_long(ch.in_sequence)
                      \o write_char(flags) \o <<0, 0>> \o write_char(ch.reliable_state)
                      \o (IF ch.choked_num > 0 THEN write_char(ch.choked_num) ELSE <<>>)
                      \o send_buffer
        sum     == shortened_checksum(scratch)
    IN SubSeq(scratch, 1, 9) \o << sum % 256, sum \div 256 >>
           \o SubSeq(scratch, 12, Len(scratch))

\* write_datagram: the datagram handed to send_raw, as the peer's
\* decrypt_buffer_inplace leaves it
write_datagram(ch, send_buffer) == encrypt_packet_buffer(write_datagram_scratch(ch, send_buffer))

\* NetMessage::encode_to_buffer for the message m = [id, body]
encode_to_buffer(m) == write_int32_var(m.id) \o write_int32_var(Len(m.body)) \o m.body

(***************************************************************************)
(* The state                                                               *)
(***************************************************************************)
VARIABLES
    ice_n,       \* the strength of the cipher under test
    ice_key,     \* its key
    ice_buf,     \* the buffer (a multiple of 8 bytes) handed to the cipher
    ice_ctext,   \* encrypt_buffer_inplace of it (<<>> before)
    ice_ptext,   \* decrypt_buffer_inplace of that (<<>> before)
    ice_done,    \* 0: nothing done, 1: encrypted, 2: encrypted and decrypted
    env_version, \* the host version a channel was upgraded with
    env_payload, \* the datagram handed to encrypt_packet
    env_wire,    \* what encrypt_packet returned
    env_buf,     \* the received buffer after decrypt_packet has decrypted it in place
    env_result,  \* what decrypt_packet returned
    env_done,    \* 0: nothing done, 1: encrypt_packet done, 2: decrypt_packet done
    in_sequence,      \* NetChannel.in_sequence
    out_sequence_ack, \* NetChannel.out_sequence_ack
    out_sequence,     \* NetChannel.out_sequence
    choked_num,       \* NetChannel.choked_num
    reliable_state,   \* NetChannel.reliable_state
    subchannels,      \* NetChannel.subchannels, indexed 0 and 1
    status,           \* "up", or "panicked" once a call has panicked
    sent,             \* the number of datagrams handed to the socket and sent
    last,             \* the last call on the channel and what it returned
    vi_value,         \* the u32 handed to write_int32_var
    vi_bytes,         \* the bytes of a varint: written by write_int32_var, or received
    vi_tail,          \* the bytes that follow them in the buffer
    vi_written,       \* vi_bytes were written by write_int32_var
    vi_result,        \* what read_int32_var returned
    vi_done,          \* 0: nothing done, 1: the bytes are there, 2: read_int32_var done
    lz_items,         \* the items an encoder has packed into lz_input (<<>>: none)
    lz_input,         \* the bytes handed to Lzss::decode
    lz_junk,          \* what a byte of the output reads as when it was never written
    lz_result,        \* what Lzss::decode returned
    lz_done,          \* Lzss::decode has returned
    hs_pc,            \* where run() stands
    hs_sent,          \* the connectionless packets run() has sent, in order
    hs_res,           \* _res: the first S2cChallenge received
    hs_chal,          \* chal: the second S2cChallenge received
    hs_reservation,   \* reservation.reservationid, once obtained
    hs_ticket,        \* auth_ticket, once obtained
    hs_replies,       \* the S2cConnection packets received
    hs_channel,       \* NetChannel::upgrade has returned the channel
    gc_pc,            \* where the thread that calls the SteamClient stands
    gc_i,             \* do_hello_handshake: the iterations of its loop that have ended
    gc_hellos,        \* the GC hello messages sent
    gc_welcomes,      \* the welcomes the game coordinator has answered them with
    gc_answer,        \* the reservation it has answered the request to join with
    gc_installed,     \* the callback that is installed ("none", "hello" or "join")
    gc_cb,            \* the callback thread: the closure it runs and its next step
    gc_hello_ch,      \* do_hello_handshake: its sync_channel::<bool>(1)
    gc_done_ch,       \* do_request: its sync_channel::<bool>(1)
    gc_res_ch,        \* request_join_server: its sync_channel(1) of reservations
    gc_result         \* what do_hello_handshake and request_join_server have returned

ice_vars == <<ice_n, ice_key, ice_buf, ice_ctext, ice_ptext, ice_done>>
env_vars == <<env_version, env_payload, env_wire, env_buf, env_result, env_done>>
chan_vars == <<in_sequence, out_sequence_ack, out_sequence, choked_num, reliable_state,
               subchannels, status, sent, last>>
vi_vars == <<vi_value, vi_bytes, vi_tail, vi_written, vi_result, vi_done>>
lz_vars == <<lz_items, lz_input, lz_junk, lz_result, lz_done>>
hs_vars == <<hs_pc, hs_sent, hs_res, hs_chal, hs_reservation, hs_ticket, hs_replies, hs_channel>>
gc_vars == <<gc_pc, gc_i, gc_hellos, gc_welcomes, gc_answer, gc_installed, gc_cb, gc_hello_ch, gc_done_ch,
             gc_res_ch, gc_result>>
other_vars == <<vi_vars, lz_vars, hs_vars, gc_vars>>
vars == <<ice_vars, env_vars, chan_vars, other_vars>>

\* the variables of a part of the program that a specification does not run
IceIdle == /\ ice_n = 2 /\ ice_key = <<>> /\ ice_buf = <<>>
           /\ ice_ctext = <<>> /\ ice_ptext = <<>> /\ ice_done = 0
EnvIdle == /\ env_version = 0 /\ env_payload = <<>> /\ env_wire = <<>>
           /\ env_buf = <<>> /\ env_result = Err /\ env_done = 0

VarintIdle == /\ vi_value = 0 /\ vi_bytes = <<>> /\ vi_tail = <<>>
              /\ vi_written = FALSE /\ vi_result = RdErr /\ vi_done = 0

LzssIdle == /\ lz_items = <<>> /\ lz_input = <<>> /\ lz_junk = 0
            /\ lz_result = LzErr("IoError", <<>>, FALSE, FALSE) /\ lz_done = FALSE

\* a connectionless packet received, as far as run() looks at it
HsPacket(type, challenge_num, context_response, host_version) ==
    [type |-> type, challenge_num |-> challenge_num,
     context_response |-> context_response, host_version |-> host_version]

NoChallenge == HsPacket("none", 0, "", 0)

HsIdle == /\ hs_pc = "start" /\ hs_sent = <<>> /\ hs_res = NoChallenge
          /\ hs_chal = NoChallenge
          /\ hs_reservation = [some |-> FALSE] /\ hs_ticket = [some |-> FALSE]
          /\ hs_replies = 0 /\ hs_channel = FALSE

\* a sync_channel of capacity 1: the values in its buffer, and whether its
\* Receiver is alive
SyncChannel(buf, open) == [buf |-> buf, open |-> open]

\* the callback thread: the closure it runs ("none", "hello" or "join"), the
\* step of the closure it is at, the reservation of the packet it was called
\* with, and whether it has panicked there
Callback(closure, step, pkt, panicked) ==
    [closure |-> closure, step |-> step, pkt |-> pkt, panicked |-> panicked]

\* the callback thread runs no closure
CbIdle == Callback("none", 0, 0, FALSE)

\* before SteamClient::connect
GcIdle == /\ gc_pc = "start" /\ gc_i = 0 /\ gc_hellos = 0 /\ gc_welcomes = 0
          /\ gc_answer = None
          /\ gc_installed = "none" /\ gc_cb = CbIdle
          /\ gc_hello_ch = SyncChannel(<<>>, FALSE)
          /\ gc_done_ch = SyncChannel(<<>>, FALSE)
          /\ gc_res_ch = SyncChannel(<<>>, FALSE)
          /\ gc_result = [hello |-> "none", join |-> "none", reservation |-> None]

OthersIdle == VarintIdle /\ LzssIdle /\ HsIdle /\ GcIdle

\* what last holds: the call (op) and its result ("Ok", "Err", "Panic"); the
\* channel's in_sequence, out_sequence, out_sequence_ack, reliable_state and
\* subchannels before the call; for
\* read_data what ReadOut says of the frame and the datagram that recv_message
\* brought; for a write the datagram handed to send_raw (as the peer's
\* decrypt_buffer_inplace leaves it, <<>> if none was sent)
Last(op, result, o, datagram) ==
    [op |-> op, result |-> result,
     in_sequence_before |-> in_sequence, out_sequence_before |-> out_sequence,
     out_sequence_ack_before |-> out_sequence_ack,
     reliable_state_before |-> reliable_state,
     subchannels_before |-> subchannels,
     header |-> o.header, messages |-> o.messages, sequenced |-> o.sequenced,
     notes |-> o.notes, lied |-> o.lied, datagram |-> datagram]

NoFrame == [header |-> NoHeader, messages |-> None, sequenced |-> FALSE, notes |-> <<>>,
            lied |-> FALSE]

\* NetChannel::upgrade: the channel as it is made, before any call
ChanIdle ==
    /\ in_sequence = 0
    /\ out_sequence_ack = 0
    /\ out_sequence = 1
    /\ choked_num = 0
    /\ reliable_state = 0
    /\ subchannels = [i \in 0..1 |-> SubChannel_new]
    /\ status = "up"
    /\ sent = 0
    /\ last = Last("upgrade", "Ok", NoFrame, <<>>)

(***************************************************************************)
(* SpecIce: the cipher on its own                                          *)
(***************************************************************************)
\* the keys and the buffers the cipher is tried on
NumIceKeys   == 3
NumIceBlocks == 6
MaxIceBlocks == 2

\* a 16-byte key: "AAAAAAAAAAAAAAAA" first, then keys of mixed bytes
IceKey(c) == [i \in 1..16 |-> IF c = 1 THEN 65 ELSE (i * (37 * c + 11) + 101 * c) % 256]
\* an 8-byte block: "BBBBBBBB" first, then the all-zero block, then mixed bytes
IceBlock(c) == [i \in 1..8 |-> IF c = 1 THEN 66 ELSE IF c = 2 THEN 0
                                  ELSE (i * (53 * c + 7) + 29 * c) % 256]

\* the 64-byte key of the n = 8 test:
\* "kFc8zALkEPTgTyDTerPjnf8LZr7aLFs9G9tDdUQFYZzffAYVnz2VzyuJ5RQwc6uH"
IceKey8 ==
    << 107, 70, 99, 56, 122, 65, 76, 107, 69, 80, 84, 103, 84, 121, 68, 84,
       101, 114, 80, 106, 110, 102, 56, 76, 90, 114, 55, 97, 76, 70, 115, 57,
       71, 57, 116, 68, 100, 85, 81, 70, 89, 90, 122, 102, 102, 65, 89, 86,
       110, 122, 50, 86, 122, 121, 117, 74, 53, 82, 81, 119, 99, 54, 117, 72 >>

\* the 16-byte keys on buffers of up to MaxIceBlocks blocks, and the 64-byte
\* key on "BBBBBBBB"
IceInit ==
    /\ ice_n \in {2, 8}
    /\ ice_key \in IF ice_n = 2 THEN {IceKey(c) : c \in 1..NumIceKeys} ELSE {IceKey8}
    /\ \E nb \in 0..MaxIceBlocks, c \in 1..NumIceBlocks :
            /\ ice_n = 8 => (nb = 1 /\ c = 1)
            /\ ice_buf = Concat([b \in 1..nb |-> IceBlock(((c + b - 2) % NumIceBlocks) + 1)])
    /\ ice_ctext = <<>>
    /\ ice_ptext = <<>>
    /\ ice_done = 0
    /\ EnvIdle
    /\ ChanIdle
    /\ OthersIdle

IceEncrypt ==
    /\ ice_done = 0
    /\ ice_ctext' = encrypt_buffer_inplace(IceEncryption_new(ice_n, ice_key), ice_buf)
    /\ ice_done' = 1
    /\ UNCHANGED <<ice_n, ice_key, ice_buf, ice_ptext, env_vars, chan_vars, other_vars>>

IceDecrypt ==
    /\ ice_done = 1
    /\ ice_ptext' = decrypt_buffer_inplace(IceEncryption_new(ice_n, ice_key), ice_ctext)
    /\ ice_done' = 2
    /\ UNCHANGED <<ice_n, ice_key, ice_buf, ice_ctext, env_vars, chan_vars, other_vars>>

IceNext == IceEncrypt \/ IceDecrypt

SpecIce == IceInit /\ [][IceNext]_vars

(***************************************************************************)
(* SpecEnvelope: encrypt_packet and decrypt_packet of a channel            *)
(***************************************************************************)
NumHostVersions == 2
NumEnvFills     == 2
MaxEnvLen       == 17

HostVersion(c) == 13000 + 779 * c
EnvPayload(len, c) == [i \in 1..len |-> (i * (41 * c + 3) + 87 * c) % 256]

EnvInit ==
    /\ env_version \in {HostVersion(c) : c \in 1..NumHostVersions}
    /\ env_payload \in {EnvPayload(len, c) : len \in 0..MaxEnvLen, c \in 1..NumEnvFills}
    /\ env_wire = <<>>
    /\ env_buf = <<>>
    /\ env_result = Err
    /\ env_done = 0
    /\ IceIdle
    /\ ChanIdle
    /\ OthersIdle

\* encrypt_packet on the channel's datagram
EnvEncrypt ==
    /\ env_done = 0
    /\ env_wire' = encrypt_packet(upgrade_crypt(env_version), env_payload)
    /\ env_done' = 1
    /\ UNCHANGED <<env_version, env_payload, env_buf, env_result, ice_vars, chan_vars, other_vars>>

\* decrypt_packet on what the peer received
EnvDecrypt ==
    /\ env_done = 1
    /\ LET d == decrypt_buffer_inplace(upgrade_crypt(env_version), env_wire)
       IN /\ env_buf' = d
          /\ env_result' = decrypt_packet_buffer(d)
    /\ env_done' = 2
    /\ UNCHANGED <<env_version, env_payload, env_wire, ice_vars, chan_vars, other_vars>>

EnvNext == EnvEncrypt \/ EnvDecrypt

SpecEnvelope == EnvInit /\ [][EnvNext]_vars

(***************************************************************************)
(* SpecVarint: write_int32_var and read_int32_var                          *)
(***************************************************************************)
\* The u32 values written: the NumVarintNear numbers from 2^(7k) - 1 on, for
\* each of the five lengths, then 2^31 - 1, 0x80000000, 0xFFFFFFFE and
\* 0xFFFFFFFF (as i32)
NumVarintNear == 2
VarintValues ==
    {Pow2(7 * k) - 1 + j : k \in 0..4, j \in 0..(NumVarintNear - 1)}
        \cup {2147483647, -2147483647 - 1, -2, -1}

\* The bytes received that no write_int32_var has written: six groups, five
\* groups with more to follow, five groups whose last holds more than four
\* bits, groups that zeros follow, and encodings cut short
VarintReceived ==
    { <<128, 128, 128, 128, 128, 1>>, <<255, 255, 255, 255, 255, 0>>,
      <<128, 128, 128, 128, 128>>, <<255, 255, 255, 255, 127>>,
      <<128, 128, 128, 128, 16>>, <<255, 255, 255, 255, 31>>,
      <<255, 255, 255, 255, 15>>, <<128, 0>>, <<255, 128, 128, 0>>,
      <<128>>, <<255, 255, 255, 255>>, <<>> }

VarintTails == {<<>>, <<255>>, <<1, 128>>}

VarintInit ==
    /\ vi_value \in VarintValues
    /\ vi_tail \in VarintTails
    /\ vi_bytes = <<>>
    /\ vi_written = FALSE
    /\ vi_result = RdErr
    /\ vi_done = 0
    /\ LzssIdle
    /\ HsIdle
    /\ GcIdle
    /\ IceIdle
    /\ EnvIdle
    /\ ChanIdle

\* write_int32_var(vi_value) into an empty buffer
VarintWrite ==
    /\ vi_done = 0
    /\ vi_bytes' = write_int32_var(vi_value)
    /\ vi_written' = TRUE
    /\ vi_done' = 1
    /\ UNCHANGED <<vi_value, vi_tail, vi_result, lz_vars, hs_vars, gc_vars, ice_vars, env_vars, chan_vars>>

\* the buffer holds bytes that come from the peer
VarintReceive ==
    /\ vi_done = 0
    /\ vi_bytes' \in VarintReceived
    /\ vi_written' = FALSE
    /\ vi_done' = 1
    /\ UNCHANGED <<vi_value, vi_tail, vi_result, lz_vars, hs_vars, gc_vars, ice_vars, env_vars, chan_vars>>

\* read_int32_var on a reader of the bytes and what follows them
VarintRead ==
    /\ vi_done = 1
    /\ vi_result' = read_int32_var(BitReader(vi_bytes \o vi_tail))
    /\ vi_done' = 2
    /\ UNCHANGED <<vi_value, vi_bytes, vi_tail, vi_written, lz_vars, hs_vars, gc_vars, ice_vars, env_vars, chan_vars>>

VarintNext == VarintWrite \/ VarintReceive \/ VarintRead

SpecVarint == VarintInit /\ [][VarintNext]_vars

(***************************************************************************)
(* SpecLzss: Lzss::decode                                                  *)
(***************************************************************************)
\* An item of a compressed stream: a literal byte, a reference (position back
\* from the last byte of the output, count of bytes) or the terminator
LzLit(b) == <<"lit", b>>
LzRef(position, count) == <<"ref", position, count>>
LzEnd == <<"end">>

\* the bytes of one item after its command bit
LzItemBytes(item) ==
    IF item[1] = "lit" THEN <<item[2]>>
    ELSE IF item[1] = "ref"
    THEN <<item[2] \div 16, (item[2] % 16) * 16 + (item[3] - 1)>>
    ELSE <<0, 0>>

RECURSIVE LzCmdByte(_, _)
\* the command byte of up to 8 items: bit i is set for the items that are no
\* literals
LzCmdByte(items, i) ==
    IF i > Len(items) \/ i > 8 THEN 0
    ELSE (IF items[i][1] = "lit" THEN 0 ELSE Pow2(i - 1)) + LzCmdByte(items, i + 1)

RECURSIVE LzssPackItems(_)
\* the stream an encoder writes for the items: a command byte before every 8
LzssPackItems(items) ==
    IF items = <<>> THEN <<>>
    ELSE <<LzCmdByte(items, 1)>>
         \o Concat([i \in 1..(IF Len(items) < 8 THEN Len(items) ELSE 8) |-> LzItemBytes(items[i])])
         \o (IF Len(items) > 8 THEN LzssPackItems(SubSeq(items, 9, Len(items))) ELSE <<>>)

\* the input of Lzss::decode for the items and the size its header declares
LzssPack(items, size) == LZSS_HEADER \o write_long(size) \o LzssPackItems(items)

RECURSIVE LzssEmit(_, _)
\* what the items put out, one after the other up to the terminator; <<-1>>
\* when a reference starts before the output or no terminator ends them
LzssEmit(items, output) ==
    IF items = <<>> THEN <<-1>>
    ELSE IF items[1][1] = "end" THEN output
    ELSE IF items[1][1] = "lit" THEN LzssEmit(Tail(items), Append(output, items[1][2]))
    ELSE IF items[1][2] >= Len(output) THEN <<-1>>
    ELSE LzssEmit(Tail(items),
                  lzss_copy(output, Len(output) - 1 - items[1][2],
                            Len(output) - 1 - items[1][2] + items[1][3]))

\* "LZSS" | le32(5) | 00 'H' 'e' 'l' 'l' 'o' | 01 00 00
LzssHello == LZSS_HEADER \o <<5, 0, 0, 0>> \o <<0, 72, 101, 108, 108, 111>> \o <<1, 0, 0>>

\* inputs that no encoder here has packed
LzssReceived ==
    { LzssHello, <<>>, <<76, 90, 83>>, <<76, 90, 83, 84, 1, 0, 0, 0, 0, 65>>,
      LZSS_HEADER \o <<1, 0>>, LZSS_HEADER \o <<1, 0, 0, 0>>,
      LZSS_HEADER \o <<2, 0, 0, 0>> \o <<0, 65>>,
      LZSS_HEADER \o <<1, 0, 0, 0>> \o <<1, 0>> }

MaxLzItems == 3
LzItems == {LzLit(65), LzLit(66), LzRef(0, 2), LzRef(1, 3), LzRef(0, 16), LzEnd}
LzItemLists == UNION {[1..n -> LzItems] : n \in 1..MaxLzItems}
LzJunk == {0, 65}

\* the sizes a header declares for the items: what they put out, one less and
\* one more
LzSizes(items) ==
    {n \in {Len(LzssEmit(items, <<>>)) + d : d \in {-1, 0, 1}} : n >= 0}
        \cup (IF LzssEmit(items, <<>>) = <<-1>> THEN {0, 2} ELSE {})

LzssInit ==
    /\ \/ /\ lz_items \in LzItemLists
          /\ \E size \in LzSizes(lz_items) : lz_input = LzssPack(lz_items, size)
       \/ /\ lz_items = <<>>
          /\ lz_input \in LzssReceived
    /\ lz_junk \in LzJunk
    /\ lz_result = LzErr("IoError", <<>>, FALSE, FALSE)
    /\ lz_done = FALSE
    /\ VarintIdle
    /\ HsIdle
    /\ GcIdle
    /\ IceIdle
    /\ EnvIdle
    /\ ChanIdle

\* Lzss::decode(lz_input)
LzssDecode ==
    /\ ~lz_done
    /\ lz_result' = Lzss_decode(lz_input, lz_junk)
    /\ lz_done' = TRUE
    /\ UNCHANGED <<lz_items, lz_input, lz_junk, vi_vars, hs_vars, gc_vars, ice_vars, env_vars, chan_vars>>

LzssNext == LzssDecode

SpecLzss == LzssInit /\ [][LzssNext]_vars

(***************************************************************************)
(* SpecHandshake: run() of main.rs up to NetChannel::upgrade, and the       *)
(* packets of packets.rs it sends and receives                             *)
(***************************************************************************)
HexDigits == <<"0", "1", "2", "3", "4", "5", "6", "7", "8", "9", "a", "b", "c", "d", "e", "f">>

\* format!("{:#010x}", v): "0x" and the eight hexadecimal digits of the u32
Hex010(v) ==
    <<"0", "x">> \o Concat([i \in 1..4 |->
        <<HexDigits[(U8(v, 4 - i) \div 16) + 1], HexDigits[(U8(v, 4 - i) % 16) + 1]>>])

ConnectPrefix == <<"c", "o", "n", "n", "e", "c", "t">>

\* A2sGetChallenge::default
A2sGetChallenge_default ==
    [type |-> "A2S_GETCHALLENGE",
     connect_string |-> ConnectPrefix \o <<"0", "x", "0", "0", "0", "0", "0", "0", "0", "0">>]

\* a request that forgets the cookie it was given
A2sGetChallenge_without_challenge(cookie_value) == A2sGetChallenge_default

\* A2sGetChallenge::with_challenge
A2sGetChallenge_with_challenge(cookie_value) ==
    [type |-> "A2S_GETCHALLENGE", connect_string |-> ConnectPrefix \o Hex010(cookie_value)]

\* S2cChallenge::should_retry
should_retry(chal) == chal.context_response = "connect-retry"

\* the C2sConnect that run() builds
C2sConnect(chal, reservationid, auth_ticket) ==
    [type |-> "C2S_CONNECT", host_version |-> chal.host_version,
     challenge_num |-> chal.challenge_num, lobby_cookie |-> reservationid,
     auth_ticket |-> auth_ticket]

\* What the server may answer: the challenge numbers, the contexts and the
\* host versions of its S2C_CHALLENGE, the other packets, and nothing
NumHsChallenges == 2
HsChallengeNums == <<-559038737, 305419896, 1, 0>>
HsContexts == {"connect0x00000000", "connect-retry", "challenge"}
HsReplies ==
    {HsPacket("S2C_CHALLENGE", HsChallengeNums[i], c, 13759) :
        i \in 1..NumHsChallenges, c \in HsContexts}
    \cup {HsPacket("S2A_INFO_SRC", 0, "", 0), HsPacket("S2C_CONNECTION", 0, "", 0),
          NoChallenge}

HsReservations == {0, 7}
HsTickets == {<<>>, <<20, 0>>}

HsInit ==
    /\ HsIdle
    /\ GcIdle
    /\ VarintIdle
    /\ LzssIdle
    /\ IceIdle
    /\ EnvIdle
    /\ ChanIdle

HsUnchanged == UNCHANGED <<vi_vars, lz_vars, gc_vars, ice_vars, env_vars, chan_vars>>

\* ConnectionlessChannel::send_packet at one place of run(): the packet goes
\* out and run() goes on, or the error ends run()
HsSend(at, pkt, to) ==
    /\ hs_pc = at
    /\ \E sent_ok \in BOOLEAN :
          IF sent_ok
          THEN hs_sent' = Append(hs_sent, pkt) /\ hs_pc' = to
          ELSE hs_sent' = hs_sent /\ hs_pc' = "failed"
    /\ UNCHANGED <<hs_res, hs_chal, hs_reservation, hs_ticket, hs_replies, hs_channel>>
    /\ HsUnchanged

\* ConnectionlessChannel::recv_packet_type::<T>: Ok for a packet of type T
recv_packet_type(reply, type) == reply.type = type

\* SteamClient::connect, the socket and ConnectionlessChannel::new
SteamConnect ==
    /\ hs_pc = "start"
    /\ hs_pc' \in {"connected", "failed"}
    /\ UNCHANGED <<hs_sent, hs_res, hs_chal, hs_reservation, hs_ticket, hs_replies, hs_channel>>
    /\ HsUnchanged

\* stream.send_packet(A2sInfo::default())
SendInfo ==
    /\ hs_channel = FALSE
    /\ HsSend("connected", [type |-> "A2S_INFO"], "info_sent")

\* let _res: S2aInfoSrc = stream.recv_packet_type()?
RecvInfo ==
    /\ hs_pc = "info_sent"
    /\ \E reply \in HsReplies :
          hs_pc' = IF recv_packet_type(reply, "S2A_INFO_SRC") THEN "info" ELSE "failed"
    /\ UNCHANGED <<hs_sent, hs_res, hs_chal, hs_reservation, hs_ticket, hs_replies, hs_channel>>
    /\ HsUnchanged

\* stream.send_packet(A2sGetChallenge::default())
SendGetChallenge ==
    /\ hs_channel = FALSE
    /\ HsSend("info", A2sGetChallenge_default, "challenge_sent")

\* let _res: S2cChallenge = stream.recv_packet_type()?
RecvChallenge ==
    /\ hs_pc = "challenge_sent"
    /\ \E reply \in HsReplies :
          IF recv_packet_type(reply, "S2C_CHALLENGE")
          THEN hs_res' = reply /\ hs_pc' = "challenged"
          ELSE hs_res' = hs_res /\ hs_pc' = "failed"
    /\ UNCHANGED <<hs_sent, hs_chal, hs_reservation, hs_ticket, hs_replies, hs_channel>>
    /\ HsUnchanged

\* stream.send_packet(A2sGetChallenge::with_challenge(_res.challenge_num))
SendVerify ==
    /\ hs_channel = FALSE
    /\ HsSend("challenged", A2sGetChallenge_with_challenge(hs_res.challenge_num), "verify_sent")

\* let chal: S2cChallenge = stream.recv_packet_type()?
RecvVerified ==
    /\ hs_pc = "verify_sent"
    /\ \E reply \in HsReplies :
          IF recv_packet_type(reply, "S2C_CHALLENGE")
          THEN hs_chal' = reply /\ hs_pc' = "verified"
          ELSE hs_chal' = hs_chal /\ hs_pc' = "failed"
    /\ UNCHANGED <<hs_sent, hs_res, hs_reservation, hs_ticket, hs_replies, hs_channel>>
    /\ HsUnchanged

\* _steam.request_join_server(chal.host_version, ...)?
RequestJoin ==
    /\ hs_pc = "verified"
    /\ \E reservationid \in HsReservations, join_ok \in BOOLEAN :
          IF join_ok
          THEN hs_reservation' = Some(reservationid) /\ hs_pc' = "reserved"
          ELSE hs_reservation' = hs_reservation /\ hs_pc' = "failed"
    /\ UNCHANGED <<hs_sent, hs_res, hs_chal, hs_ticket, hs_replies, hs_channel>>
    /\ HsUnchanged

\* _steam.get_auth_ticket()?
GetAuthTicket ==
    /\ hs_pc = "reserved"
    /\ \E auth_ticket \in HsTickets, ticket_ok \in BOOLEAN :
          IF ticket_ok
          THEN hs_ticket' = Some(auth_ticket) /\ hs_pc' = "ticketed"
          ELSE hs_ticket' = hs_ticket /\ hs_pc' = "failed"
    /\ UNCHANGED <<hs_sent, hs_res, hs_chal, hs_reservation, hs_replies, hs_channel>>
    /\ HsUnchanged

\* stream.send_packet(conn.into())
SendConnect ==
    /\ hs_channel = FALSE
    /\ HsSend("ticketed", C2sConnect(hs_chal, hs_reservation.v, hs_ticket.v), "connect_sent")

\* let _connection_pkt: S2cConnection = stream.recv_packet_type()?, twice
RecvConnection ==
    /\ hs_pc = "connect_sent"
    /\ \E reply \in HsReplies :
          IF recv_packet_type(reply, "S2C_CONNECTION")
          THEN /\ hs_replies' = hs_replies + 1
               /\ hs_pc' = IF hs_replies + 1 = 2 THEN "established" ELSE "connect_sent"
          ELSE hs_replies' = hs_replies /\ hs_pc' = "failed"
    /\ UNCHANGED <<hs_sent, hs_res, hs_chal, hs_reservation, hs_ticket, hs_channel>>
    /\ HsUnchanged

\* NetChannel::upgrade(stream, chal.host_version)?
Upgrade ==
    /\ hs_pc = "established"
    /\ \E upgraded \in BOOLEAN :
          IF upgraded
          THEN hs_channel' = TRUE /\ hs_pc' = "channel"
          ELSE hs_channel' = FALSE /\ hs_pc' = "failed"
    /\ UNCHANGED <<hs_sent, hs_res, hs_chal, hs_reservation, hs_ticket, hs_replies>>
    /\ HsUnchanged

HsNext ==
    \/ SteamConnect
    \/ SendInfo
    \/ RecvInfo
    \/ SendGetChallenge
    \/ RecvChallenge
    \/ SendVerify
    \/ RecvVerified
    \/ RequestJoin
    \/ GetAuthTicket
    \/ SendConnect
    \/ RecvConnection
    \/ Upgrade

SpecHandshake == HsInit /\ [][HsNext]_vars

(***************************************************************************)
(* The peer: the frames a server writes with the same bit writer           *)
(***************************************************************************)
\* BitWriter::write(n, v), little-endian: the n low bits of v, the lowest first
PutBits(v, n) == [i \in 1..n |-> (v \div Pow2(i - 1)) % 2]

\* BitWriter::write_bytes off a byte boundary: the bits of the bytes in turn
PutBytes(bytes) ==
    [i \in 1..(8 * Len(bytes)) |-> (bytes[((i - 1) \div 8) + 1] \div Pow2((i - 1) % 8)) % 2]

\* the bytes a stream of bits makes, the last byte filled up with zero bits
PackBytes(bits) ==
    LET n == (Len(bits) + 7) \div 8
        b(i) == IF i <= Len(bits) THEN bits[i] ELSE 0
        byte(k) == b(8 * k - 7) + 2 * b(8 * k - 6) + 4 * b(8 * k - 5) + 8 * b(8 * k - 4)
                      + 16 * b(8 * k - 3) + 32 * b(8 * k - 2) + 64 * b(8 * k - 1)
                      + 128 * b(8 * k)
    IN SubSeq([k \in 1..n |-> byte(k)], 1, n)

\* the header of a frame: sequence, sequence_ack, flags, checksum 0,
\* reliable_state 0
PeerHeader(sequence, sequence_ack, flags) ==
    write_long(sequence) \o write_long(sequence_ack) \o write_char(flags) \o <<0, 0>>
        \o write_char(0)

\* net_Tick with an empty body; net_Tick announcing five bytes that are not there
TickMsg == <<4, 0>>
BadMsg  == <<4, 5>>

\* A payload of 513 bytes, sent in three fragments.  Fragment 0 is a
\* net_StringCmd of 253 bytes, fragment 1 a net_StringCmd of 252 bytes and a
\* NOP, fragment 2 a NOP.
StringCmd(len, fill) ==
    <<5>> \o write_int32_var(len + 3) \o <<10>> \o write_int32_var(len)
        \o SubSeq([i \in 1..len |-> fill], 1, len)
Fragment0 == StringCmd(250, 97)
Fragment1 == StringCmd(249, 98) \o <<0>>
Fragment2 == <<0>>
PayloadSize == Len(Fragment0) + Len(Fragment1) + Len(Fragment2)

\* the subchannel section of a RELIABLE frame that updates one stream with a
\* chunk of a multi-block transfer of payload_size bytes (no file, not
\* compressed), then the bit of the other stream if it comes after
ChunkBits(subchan_i, stream_i, start_frag, num_frags, payload_size, bytes) ==
    PutBits(subchan_i, 3)
        \o (IF stream_i = 1 THEN <<0>> ELSE <<>>)
        \o <<1, 1>> \o PutBits(start_frag, 18) \o PutBits(num_frags, 3)
        \o (IF start_frag = 0 THEN <<0, 0>> \o PutBits(payload_size, 26) ELSE <<>>)
        \o PutBytes(bytes)
        \o (IF stream_i = 0 THEN <<0>> ELSE <<>>)

\* the same for the single-block form on stream 0
SingleBits(subchan_i, payload_size, bytes) ==
    PutBits(subchan_i, 3) \o <<1, 0, 0>> \o PutBits(payload_size, 18) \o PutBytes(bytes)
        \o <<0>>

\* a whole transfer in one chunk on stream 0 that says it is compressed
CompressedBits(subchan_i, uncompressed_size, payload_size, bytes) ==
    PutBits(subchan_i, 3)
        \o <<1, 1>> \o PutBits(0, 18) \o PutBits(1, 3)
        \o <<0, 1>> \o PutBits(uncompressed_size, 26) \o PutBits(payload_size, 26)
        \o PutBytes(bytes)
        \o <<0>>

\* the frames that do not set PACKET_RELIABLE
PlainKinds == {"nop", "tick", "bad"}

\* The bodies of the frames the peer sends, after the header.
\*   "nop"   nothing;  "tick" one message;  "bad" a message cut short
\*   "small" a whole transfer of two bytes (one message) in one chunk
\*   "A0", "A1", "A2"  fragment 0, 1, 2 of the payload, one per frame
\*   "X"     fragments 0 and 1;  "W" the whole payload
\*   "B1"    fragment 1, sent for subchannel index 1
\*   "S"     a single block of three bytes
\*   "F"     a whole transfer of two bytes on the file stream
\*   "Z"     a first fragment that declares a payload of 0 bytes
\*   "ZS"    a single block that declares a payload of 0 bytes
\*   "N0"    a first chunk (start_frag 0) of no fragments
\*   "C"     a whole transfer of two bytes said to be compressed, of
\*           MAX_FILE_SIZE bytes when uncompressed
PeerBody(kind) ==
    CASE kind = "nop" -> <<>>
      [] kind = "tick" -> TickMsg
      [] kind = "bad" -> BadMsg
      [] kind = "small" -> PackBytes(ChunkBits(0, 0, 0, 1, 2, TickMsg))
      [] kind = "A0" -> PackBytes(ChunkBits(0, 0, 0, 1, PayloadSize, Fragment0))
      [] kind = "A1" -> PackBytes(ChunkBits(0, 0, 1, 1, PayloadSize, Fragment1))
      [] kind = "A2" -> PackBytes(ChunkBits(0, 0, 2, 1, PayloadSize, Fragment2))
      [] kind = "X" -> PackBytes(ChunkBits(0, 0, 0, 2, PayloadSize, Fragment0 \o Fragment1))
      [] kind = "W" -> PackBytes(ChunkBits(0, 0, 0, 3, PayloadSize, Fragment0 \o Fragment1 \o Fragment2))
      [] kind = "B1" -> PackBytes(ChunkBits(1, 0, 1, 1, PayloadSize, Fragment1))
      [] kind = "S" -> PackBytes(SingleBits(0, 3, <<4, 0, 0>>))
      [] kind = "F" -> PackBytes(ChunkBits(0, 1, 0, 1, 2, TickMsg))
      [] kind = "Z" -> PackBytes(ChunkBits(0, 0, 0, 1, 0, <<>>))
      [] kind = "ZS" -> PackBytes(SingleBits(0, 0, <<>>))
      [] kind = "N0" -> PackBytes(ChunkBits(0, 0, 0, 0, PayloadSize, <<>>))
      [] kind = "C" -> PackBytes(CompressedBits(0, MAX_FILE_SIZE, 2, TickMsg))

RECURSIVE LzssLiterals(_)
\* bytes as the LZSS decoder takes them when nothing is a reference: a command
\* byte 0 before every eight of them
LzssLiterals(bytes) ==
    IF Len(bytes) <= 8 THEN <<0>> \o bytes
    ELSE <<0>> \o SubSeq(bytes, 1, 8) \o LzssLiterals(SubSeq(bytes, 9, Len(bytes)))

\* a frame of the peer; "lz" is the frame "tick" sent compressed: the flag, the
\* LZSS header, the size and the frame as literals
PeerFrame(kind, sequence, sequence_ack) ==
    IF kind = "lz"
    THEN LET frame == PeerHeader(sequence, sequence_ack, 0) \o PeerBody("tick")
         IN write_long(NET_HEADER_FLAG_COMPRESSEDPACKET) \o LZSS_HEADER
                \o write_long(Len(frame)) \o LzssLiterals(frame)
    ELSE PeerHeader(sequence, sequence_ack,
                    IF kind \in PlainKinds THEN 0 ELSE PACKET_RELIABLE)
             \o PeerBody(kind)

\* The envelope the peer puts around a frame, as decrypt_buffer_inplace leaves
\* it on this side.
\*   "exact"        what encrypt_packet builds
\*   "understated"  the size on the wire is two less than the frame
\*   "overstated"   the size on the wire is eight more than the frame
\*   "garbage"      the first byte is 0x80
\*   "misaligned"   one byte more than a multiple of 8
\*   "short"        three bytes
PeerEnvelope(frame, envelope) ==
    LET b == encrypt_packet_buffer(frame)
        resized(size) == SubSeq(b, 1, b[1] + 1) \o write_long(bswap(size))
                             \o SubSeq(b, b[1] + 6, Len(b))
    IN CASE envelope = "exact" -> b
         [] envelope = "understated" -> resized(Len(frame) - 2)
         [] envelope = "overstated" -> resized(Len(frame) + 8)
         [] envelope = "garbage" -> <<128>> \o SubSeq(b, 2, Len(b))
         [] envelope = "misaligned" -> b \o <<0>>
         [] envelope = "short" -> SubSeq(b, 1, 3)

Envelopes == {"exact", "understated", "overstated", "garbage", "misaligned", "short"}

\* what recv_message brings
Received(sentinel, buf) == [received |-> TRUE, sentinel |-> sentinel, buf |-> buf]
NotReceived == [received |-> FALSE, sentinel |-> "none", buf |-> <<>>]

(***************************************************************************)
(* Spec: a NetChannel, its reads and its writes                            *)
(***************************************************************************)
\* the sequence numbers of the peer's frames go up to MaxSeq, and at most
\* MaxSent datagrams are sent
MaxSeq  == 3
MaxSent == 2

Init == ChanIdle /\ IceIdle /\ EnvIdle /\ OthersIdle

\* The results of read_data that a build can give: that of read_data, a panic
\* instead where a usize has wrapped, and where the decoder has left the rules
\* of the language any of these or a read of other bytes.
ReadOutcomes(ch, d) ==
    UNION {{o} \cup (IF o.wrapped \/ o.ub THEN {[o EXCEPT !.result = "Panic"]} ELSE {}) :
           o \in {read_data(ch, d, junk) : junk \in {0, 255}}}

\* read_data when recv_message brings d
Receive(d) ==
    /\ \E o \in ReadOutcomes([in_sequence |-> in_sequence,
                              out_sequence_ack |-> out_sequence_ack,
                              reliable_state |-> reliable_state,
                              subchannels |-> subchannels], d) :
          /\ in_sequence' = o.in_sequence
          /\ out_sequence_ack' = o.out_sequence_ack
          /\ reliable_state' = o.reliable_state
          /\ subchannels' = o.subchannels
          /\ status' = IF o.result = "Panic" THEN "panicked" ELSE "up"
          /\ last' = Last("read_data", o.result, o, d.buf)
    /\ UNCHANGED <<out_sequence, choked_num, sent, ice_vars, env_vars, other_vars>>

\* the sequence numbers the peer uses: the one before the last accepted, the
\* last accepted again, the next, and the one after the next
PeerSequences == ((in_sequence - 1)..(in_sequence + 2)) \cap (1..MaxSeq)

\* the first four bytes of a datagram that are a sentinel as they come
SentinelOf(buf) ==
    IF Len(buf) >= 4 /\ SubSeq(buf, 1, 4) = write_long(NET_HEADER_FLAG_SPLITPACKET) THEN "split"
    ELSE IF Len(buf) >= 4 /\ SubSeq(buf, 1, 4) = write_long(CONNECTIONLESS_HEADER)
    THEN "connectionless"
    ELSE "none"

\* what recv_message can bring: a frame of the peer (which acknowledges what
\* was sent to it), a datagram with a sentinel in front (as it comes, or once
\* decrypted), or a failure
PeerDatagrams ==
    {Received("none", PeerEnvelope(PeerFrame(f[1], f[2], sent), f[3])) :
        f \in {g \in (PlainKinds \cup {"small", "lz"}) \X PeerSequences \X Envelopes :
                 \/ g[1] = "tick"
                 \/ g[1] = "lz" /\ g[3] = "exact"
                 \/ g[2] = in_sequence + 1 /\ g[3] = "exact"}}
        \cup {Received(SentinelOf(buf), buf) :
                 buf \in {write_long(header) \o <<0, 0, 0, 0>> :
                            header \in {NET_HEADER_FLAG_SPLITPACKET, CONNECTIONLESS_HEADER}}}
        \cup {Received("none", PeerEnvelope(PeerFrame("nop", header, sent), "exact")) :
                 header \in {NET_HEADER_FLAG_SPLITPACKET, CONNECTIONLESS_HEADER}}
        \cup {NotReceived}

\* NetChannel::read_data
ReadData ==
    \E d \in PeerDatagrams :
        /\ status = "up"
        /\ Receive(d)

\* write_datagram followed by what its caller does: send_ok is whether
\* send_raw succeeds, bump whether the caller goes on to out_sequence += 1
Send(op, send_buffer, send_ok, bump) ==
    /\ sent < MaxSent
    /\ LET datagram == write_datagram([out_sequence |-> out_sequence,
                                       in_sequence |-> in_sequence,
                                       choked_num |-> choked_num,
                                       reliable_state |-> reliable_state], send_buffer)
       IN IF send_ok
          THEN /\ sent' = sent + 1
               /\ out_sequence' = IF bump THEN out_sequence + 1 ELSE out_sequence
               /\ last' = Last(op, "Ok", NoFrame, datagram)
          ELSE /\ UNCHANGED <<sent, out_sequence>>
               /\ last' = Last(op, "Err", NoFrame, <<>>)
    /\ UNCHANGED <<in_sequence, out_sequence_ack, choked_num, reliable_state, subchannels,
                   status, ice_vars, env_vars, other_vars>>

\* the messages the program sends: net_SignonState with signon_state 2, net_Tick
SignonMsg == [id |-> 7, body |-> <<8, 2>>]
EmptyTick == [id |-> 4, body |-> <<>>]

\* NetChannel::write_netmessage
WriteNetmessage ==
    \E m \in {SignonMsg, EmptyTick}, send_ok \in BOOLEAN :
        /\ status = "up"
        /\ Send("write_netmessage", encode_to_buffer(m), send_ok, TRUE)

\* NetChannel::write_nop
WriteNop ==
    \E send_ok \in BOOLEAN :
        /\ status = "up"
        /\ Send("write_nop", <<>>, send_ok, TRUE)

\* NetChannel::write_datagram, called by the user of the channel
WriteDatagram ==
    \E send_buffer \in {<<>>, encode_to_buffer(EmptyTick)}, send_ok \in BOOLEAN :
        /\ status = "up"
        /\ Send("write_datagram", send_buffer, send_ok, FALSE)

Next == ReadData \/ WriteNetmessage \/ WriteNop \/ WriteDatagram

Spec == Init /\ [][Next]_vars

(***************************************************************************)
(* SpecReassembly: a NetChannel that receives the chunks of transfers      *)
(***************************************************************************)
\* the number of frames the channel accepts
MaxChunks == 3

ReliableKinds == {"A0", "A1", "A2", "X", "W", "B1", "S", "F", "Z", "ZS", "N0", "C"}

\* A frame that ends in an error after its fragments were counted leaves
\* in_sequence as it was, so the peer can send it again and again: the frames
\* stop when a transfer has counted MaxAcks fragments.
MaxAcks == 4

\* read_data: a RELIABLE frame of the peer with the next sequence number
ReadChunk ==
    \E d \in {Received("none", PeerEnvelope(PeerFrame(kind, in_sequence + 1, 0), "exact")) :
                 kind \in ReliableKinds} :
        /\ status = "up"
        /\ in_sequence < MaxChunks
        /\ \A stream_i \in 0..1 :
              subchannels[stream_i].transfer.some =>
                  subchannels[stream_i].transfer.v.num_fragments_ack < MaxAcks
        /\ Receive(d)

NextReassembly == ReadChunk

SpecReassembly == Init /\ [][NextReassembly]_vars

(***************************************************************************)
(* SpecFragments: a NetChannel that receives chunks in any order           *)
(***************************************************************************)
\* A payload of 769 bytes (four fragments; the third is a net_StringCmd of 256
\* bytes) and one of 257 bytes (two fragments).
LongPayload  == Fragment0 \o Fragment1 \o StringCmd(250, 99) \o <<0>>
ShortPayload == StringCmd(250, 100) \o <<0>>

\* a chunk of a multi-block transfer: the payload it is cut from, start_frag
\* and num_frags
FragChunk(payload, start_frag, num_frags) ==
    [payload |-> payload, start_frag |-> start_frag, num_frags |-> num_frags]

\* the bytes the peer sends with a chunk: what the payload has of its fragments
ChunkBytes(c) ==
    SubSeq(c.payload, c.start_frag * FRAGMENT_SIZE + 1,
           IF (c.start_frag + c.num_frags) * FRAGMENT_SIZE < Len(c.payload)
           THEN (c.start_frag + c.num_frags) * FRAGMENT_SIZE ELSE Len(c.payload))

\* The chunks the peer sends: of the long payload fragments 0 and 1, fragment
\* 1, fragment 3, fragments 3 and 4 (there is no fragment 4), and no fragment
\* from 4 on; of the short payload fragment 0, fragment 1, and fragments 0 to 2
\* (there is no fragment 2).
FragChunks ==
    {FragChunk(LongPayload, 0, 2), FragChunk(LongPayload, 1, 1),
     FragChunk(LongPayload, 3, 1), FragChunk(LongPayload, 3, 2),
     FragChunk(LongPayload, 4, 0),
     FragChunk(ShortPayload, 0, 1), FragChunk(ShortPayload, 1, 1),
     FragChunk(ShortPayload, 0, 3)}

\* the datagram of a RELIABLE frame that holds the chunk c on stream 0
FragDatagram(c, sequence) ==
    PeerEnvelope(
        PeerHeader(sequence, 0, PACKET_RELIABLE)
            \o PackBytes(ChunkBits(0, 0, c.start_frag, c.num_frags, Len(c.payload),
                                   ChunkBytes(c))),
        "exact")

\* the number of frames the channel accepts
MaxFragChunks == 3

\* read_data: a chunk of the peer with the next sequence number
ReadFragments ==
    \E c \in FragChunks :
        /\ status = "up"
        /\ in_sequence < MaxFragChunks
        /\ Receive(Received("none", FragDatagram(c, in_sequence + 1)))

NextFragments == ReadFragments

SpecFragments == Init /\ [][NextFragments]_vars

(***************************************************************************)
(* SpecMessages: a NetChannel that receives frames of messages             *)
(***************************************************************************)
\* What the peer puts into a frame for a message: its id, its body, and
\* whether the id is one of NET_Messages or SVC_Messages (a NOP is the id 0
\* alone, and no message).
MsgItem(id, body, known) == [id |-> id, body |-> body, known |-> known]

MsgNop       == MsgItem(0, <<>>, FALSE)
MsgTick      == MsgItem(4, <<>>, TRUE)
MsgSignon    == MsgItem(7, <<8, 2>>, TRUE)
MsgUnknown37 == MsgItem(37, <<8, 2>>, FALSE)

\* the bytes of an item, and of the items of a sequence in turn
MsgWire(item) == IF item.id = 0 THEN <<0>> ELSE encode_to_buffer(item)
MsgsWire(items) == Concat([i \in 1..Len(items) |-> MsgWire(items[i])])

\* at most MaxMsgItems items follow the subchannel section of a frame, and
\* MaxMsgFrames frames are received
MaxMsgItems  == 3
MaxMsgFrames == 1

MsgItems == {MsgNop, MsgTick, MsgSignon, MsgUnknown37}
MsgLists(items, n) == UNION {[1..k -> items] : k \in 0..n}

\* The frames of the peer.
\*   reliable  the frame sets PACKET_RELIABLE and has a subchannel section
\*   sub       the payload of a transfer on stream 0 that the section holds
\*             whole (<<>>: the section updates no stream)
\*   trail     the items after the subchannel section
\*   cut       a message cut short ends the frame
MsgFrame(reliable, sub, trail, cut) ==
    [reliable |-> reliable, sub |-> sub, trail |-> trail, cut |-> cut]

MsgFrames ==
    {MsgFrame(FALSE, <<>>, trail, FALSE) :
        trail \in MsgLists({MsgTick, MsgSignon, MsgUnknown37}, MaxMsgItems)
                      \cup MsgLists({MsgNop, MsgTick}, MaxMsgItems)}
        \cup {MsgFrame(TRUE, sub, trail, FALSE) :
                 sub \in {<<>>, <<MsgNop>>, <<MsgSignon>>, <<MsgUnknown37, MsgTick>>},
                 trail \in MsgLists(MsgItems, 1)}
        \cup {MsgFrame(FALSE, <<>>, <<MsgTick>>, TRUE),
              MsgFrame(TRUE, <<MsgSignon>>, <<MsgTick>>, TRUE)}

\* the subchannel section of a frame of MsgFrames, in bits
MsgSection(f) ==
    IF ~f.reliable THEN <<>>
    ELSE IF f.sub = <<>> THEN PutBits(0, 3) \o <<0, 0>>
    ELSE ChunkBits(0, 0, 0, 1, Len(MsgsWire(f.sub)), MsgsWire(f.sub))

\* a frame of MsgFrames, in bytes
MsgFrameBytes(f, sequence) ==
    PeerHeader(sequence, 0, IF f.reliable THEN PACKET_RELIABLE ELSE 0)
        \o PackBytes(MsgSection(f)
                         \o PutBytes(MsgsWire(f.trail) \o (IF f.cut THEN BadMsg ELSE <<>>)))

\* the datagram of a frame of MsgFrames
MsgDatagram(f, sequence) == PeerEnvelope(MsgFrameBytes(f, sequence), "exact")

\* read_data: a frame of messages of the peer with the next sequence number
ReadMessages ==
    \E f \in MsgFrames :
        /\ status = "up"
        /\ in_sequence < MaxMsgFrames
        /\ Receive(Received("none", MsgDatagram(f, in_sequence + 1)))

NextMessages == ReadMessages

SpecMessages == Init /\ [][NextMessages]_vars

(***************************************************************************)
(* SpecAcks: a NetChannel that receives frames and writes datagrams        *)
(***************************************************************************)
\* the frames the peer sends here: a message; a RELIABLE frame that updates no
\* stream, then a message; the same with the message cut short; a message cut
\* short alone
AckFrames ==
    {MsgFrame(FALSE, <<>>, <<MsgTick>>, FALSE),
     MsgFrame(TRUE, <<>>, <<MsgTick>>, FALSE),
     MsgFrame(TRUE, <<>>, <<>>, TRUE),
     MsgFrame(FALSE, <<>>, <<>>, TRUE)}

\* the number of frames the channel accepts here
MaxAckFrames == 2

\* what the peer writes into the checksum field of a frame: nothing, the
\* checksum that write_datagram would write, or something else
FrameChecksums(frame) == {0, shortened_checksum(frame), 48879}

\* the datagram of a frame of AckFrames with that in its checksum field
AckDatagram(f, sequence, checksum) ==
    PeerEnvelope(SubSeq(MsgFrameBytes(f, sequence), 1, 9)
                     \o <<checksum % 256, checksum \div 256>>
                     \o SubSeq(MsgFrameBytes(f, sequence), 12,
                               Len(MsgFrameBytes(f, sequence))),
                 "exact")

\* read_data: a frame of AckFrames with the next sequence number
ReadAcked ==
    \E f \in AckFrames :
        \E checksum \in FrameChecksums(MsgFrameBytes(f, in_sequence + 1)) :
            /\ status = "up"
            /\ in_sequence < MaxAckFrames
            /\ Receive(Received("none", AckDatagram(f, in_sequence + 1, checksum)))

NextAcks == ReadAcked \/ WriteNetmessage \/ WriteNop \/ WriteDatagram

SpecAcks == Init /\ [][NextAcks]_vars

(***************************************************************************)
(* SpecCompressed: a NetChannel that receives frames plain and compressed  *)
(***************************************************************************)
RECURSIVE LzssRunItems(_, _)
\* the items of an encoder for the bytes from index i on: a reference to the
\* last byte put out, of 2 bytes, where the byte repeats twice more, and
\* literals elsewhere
LzssRunItems(bytes, i) ==
    IF i > Len(bytes) THEN <<>>
    ELSE IF i >= 2 /\ i + 1 <= Len(bytes) /\ bytes[i] = bytes[i - 1]
                /\ bytes[i + 1] = bytes[i - 1]
    THEN <<LzRef(0, 2)>> \o LzssRunItems(bytes, i + 2)
    ELSE <<LzLit(bytes[i])>> \o LzssRunItems(bytes, i + 1)

\* the forms a frame comes in: as it is, or after the flag 0xFFFFFFFD as an
\* LZSS stream of literals, or of literals and references, with a terminator
FrameForms == {"plain", "literals", "references"}

FrameForm(frame, form) ==
    IF form = "plain" THEN frame
    ELSE write_long(NET_HEADER_FLAG_COMPRESSEDPACKET)
             \o LzssPack((IF form = "literals"
                          THEN [i \in 1..Len(frame) |-> LzLit(frame[i])]
                          ELSE LzssRunItems(frame, 1)) \o <<LzEnd>>,
                         Len(frame))

\* the frames that come in these forms (no uncompressed frame begins with the
\* flag 0xFFFFFFFD): of the kinds below, with the channel's in_sequence or the
\* next as sequence number, which they acknowledge as well
FormKinds == {"nop", "tick", "bad", "small", "S", "F"}

FormFrame(kind, sequence) ==
    PeerHeader(sequence, sequence, IF kind \in PlainKinds THEN 0 ELSE PACKET_RELIABLE)
        \o PeerBody(kind)

\* the number of frames the channel accepts here
MaxFormFrames == 2

\* read_data: a frame of the peer in one of its forms
ReadCompressed ==
    \E kind \in FormKinds, d \in 0..1, form \in FrameForms :
        /\ status = "up"
        /\ in_sequence < MaxFormFrames
        /\ Receive(Received("none", PeerEnvelope(FrameForm(FormFrame(kind, in_sequence + d),
                                                           form), "exact")))

NextCompressed == ReadCompressed

SpecCompressed == Init /\ [][NextCompressed]_vars

(***************************************************************************)
(* steam/client.rs: SteamClient and the thread that runs its callbacks     *)
(***************************************************************************)
\* do_hello_handshake: for _i in 0..10
HELLO_TRIES == 10

\* SyncSender::send on a sync_channel of capacity 1: "closed" (the Receiver is
\* gone: Err, which unwrap() turns into a panic), "full" (the sender blocks) or
\* "sent"
sync_send(ch) ==
    IF ~ch.open THEN "closed" ELSE IF Len(ch.buf) >= 1 THEN "full" ELSE "sent"

\* a loop that goes on to its next iteration when send_message fails
hello_step_retrying(i, event) ==
    CASE event = "send_failed" -> IF i + 1 < HELLO_TRIES THEN "hello_send" ELSE "SendErr"
      [] event = "sent" -> "hello_wait"
      [] event = "welcome" -> "Ok"
      [] event = "timeout" -> IF i + 1 < HELLO_TRIES THEN "hello_send" ELSE "Timeout"

\* do_hello_handshake: what iteration i of the loop does on an event: it goes
\* on ("hello_wait", "hello_send") or the function returns ("Ok", "SendErr",
\* "Timeout")
hello_step(i, event) ==
    CASE event = "send_failed" -> "SendErr"
      [] event = "sent" -> "hello_wait"
      [] event = "welcome" -> "Ok"
      [] event = "timeout" -> IF i + 1 < HELLO_TRIES THEN "hello_send" ELSE "Timeout"

\* the closure that do_request installs for request_join_server: callback(pkt),
\* which sends the reservation, then sender_cl.send(true)
join_callback == <<"reservation", "done">>

(***************************************************************************)
(* SpecSteam: connect() and request_join_server() with the callback thread *)
(***************************************************************************)
GcUnchanged == UNCHANGED <<vi_vars, lz_vars, hs_vars, ice_vars, env_vars, chan_vars>>

\* connect(): do_hello_handshake up to its loop
HelloBegin ==
    /\ gc_pc = "start"
    /\ gc_pc' = "hello_send"
    /\ gc_hello_ch' = SyncChannel(<<>>, TRUE)
    /\ gc_installed' = "hello"
    /\ UNCHANGED <<gc_i, gc_hellos, gc_welcomes, gc_answer, gc_cb, gc_done_ch, gc_res_ch,
                   gc_result>>
    /\ GcUnchanged

\* do_hello_handshake on an event of its loop; buf is what the event leaves
\* in the buffer of its channel.  When it returns, _cb and receiver are dropped.
HelloEvent(event, buf) ==
    LET to == hello_step(gc_i, event)
    IN /\ gc_hellos' = IF event = "sent" THEN gc_hellos + 1 ELSE gc_hellos
       /\ gc_i' = IF to \in {"hello_send", "Timeout"} THEN gc_i + 1 ELSE gc_i
       /\ IF to \in {"Ok", "SendErr", "Timeout"}
          THEN /\ gc_pc' = IF to = "Ok" THEN "connected" ELSE "failed"
               /\ gc_result' = [gc_result EXCEPT !.hello = to]
               /\ gc_installed' = "none"
               /\ gc_hello_ch' = SyncChannel(buf, FALSE)
          ELSE /\ gc_pc' = to
               /\ gc_hello_ch' = SyncChannel(buf, TRUE)
               /\ UNCHANGED <<gc_result, gc_installed>>
       /\ UNCHANGED <<gc_welcomes, gc_answer, gc_cb, gc_done_ch, gc_res_ch>>
       /\ GcUnchanged

\* gc_queue.send_message(k_EMsgGCClientHello)
HelloSend ==
    \E send_ok \in BOOLEAN :
        /\ gc_pc = "hello_send"
        /\ HelloEvent(IF send_ok THEN "sent" ELSE "send_failed", gc_hello_ch.buf)

\* receiver.recv_timeout(1000 ms) gives Ok
HelloRecv ==
    /\ gc_pc = "hello_wait"
    /\ gc_hello_ch.buf # <<>>
    /\ HelloEvent("welcome", <<>>)

\* receiver.recv_timeout(1000 ms) gives Err: nothing has come in 1000 ms
HelloTimeout ==
    /\ gc_pc = "hello_wait"
    /\ gc_hello_ch.buf = <<>>
    /\ HelloEvent("timeout", <<>>)

\* the game coordinator answers a hello, and the callback thread calls the
\* closure that is installed for the welcome
GcWelcome ==
    /\ gc_installed = "hello"
    /\ gc_cb = CbIdle
    /\ gc_welcomes < gc_hellos
    /\ gc_welcomes' = gc_welcomes + 1
    /\ gc_cb' = Callback("hello", 1, 0, FALSE)
    /\ UNCHANGED <<gc_pc, gc_i, gc_hellos, gc_answer, gc_installed, gc_hello_ch, gc_done_ch,
                   gc_res_ch, gc_result>>
    /\ GcUnchanged

\* the closure of do_hello_handshake: sender_cl.send(true).unwrap()
CbHello ==
    /\ gc_cb.closure = "hello"
    /\ ~gc_cb.panicked
    /\ sync_send(gc_hello_ch) # "full"
    /\ IF sync_send(gc_hello_ch) = "closed"
       THEN /\ gc_cb' = [gc_cb EXCEPT !.panicked = TRUE]
            /\ UNCHANGED gc_hello_ch
       ELSE /\ gc_cb' = CbIdle
            /\ gc_hello_ch' = [gc_hello_ch EXCEPT !.buf = <<TRUE>>]
    /\ UNCHANGED <<gc_pc, gc_i, gc_hellos, gc_welcomes, gc_answer, gc_installed, gc_done_ch,
                   gc_res_ch, gc_result>>
    /\ GcUnchanged

\* request_join_server up to send_message in do_request
JoinBegin ==
    /\ gc_pc = "connected"
    /\ gc_pc' = "join_send"
    /\ gc_res_ch' = SyncChannel(<<>>, TRUE)
    /\ gc_done_ch' = SyncChannel(<<>>, TRUE)
    /\ gc_installed' = "join"
    /\ UNCHANGED <<gc_i, gc_hellos, gc_welcomes, gc_answer, gc_cb, gc_hello_ch, gc_result>>
    /\ GcUnchanged

\* request_join_server returns the error of do_request: _cb, receiver and recv
\* are dropped
JoinFails(error) ==
    /\ gc_pc' = "join_failed"
    /\ gc_result' = [gc_result EXCEPT !.join = error]
    /\ gc_installed' = "none"
    /\ gc_done_ch' = [gc_done_ch EXCEPT !.open = FALSE]
    /\ gc_res_ch' = [gc_res_ch EXCEPT !.open = FALSE]
    /\ UNCHANGED <<gc_i, gc_hellos, gc_welcomes, gc_answer, gc_cb, gc_hello_ch>>
    /\ GcUnchanged

\* do_request: gc_queue.send_message(to_send)
JoinSend ==
    \E send_ok \in BOOLEAN :
        /\ gc_pc = "join_send"
        /\ IF send_ok
           THEN /\ gc_pc' = "join_wait"
                /\ UNCHANGED <<gc_i, gc_hellos, gc_welcomes, gc_answer, gc_installed, gc_cb,
                               gc_hello_ch, gc_done_ch, gc_res_ch, gc_result>>
                /\ GcUnchanged
           ELSE JoinFails("SendErr")

\* do_request: receiver.recv_timeout(timeout) gives Ok and do_request returns
\* Ok(()): _cb and receiver are dropped
JoinDone ==
    /\ gc_pc = "join_wait"
    /\ gc_done_ch.buf # <<>>
    /\ gc_pc' = "join_recv"
    /\ gc_done_ch' = SyncChannel(<<>>, FALSE)
    /\ gc_installed' = "none"
    /\ UNCHANGED <<gc_i, gc_hellos, gc_welcomes, gc_answer, gc_cb, gc_hello_ch, gc_res_ch,
                   gc_result>>
    /\ GcUnchanged

\* do_request: receiver.recv_timeout(timeout) gives Err
JoinTimeout ==
    /\ gc_pc = "join_wait"
    /\ gc_done_ch.buf = <<>>
    /\ JoinFails("Timeout")

\* request_join_server: recv.recv() gives the reservation, which it returns
JoinRecv ==
    /\ gc_pc = "join_recv"
    /\ gc_res_ch.buf # <<>>
    /\ gc_pc' = "joined"
    /\ gc_result' = [gc_result EXCEPT !.join = "Ok", !.reservation = Some(gc_res_ch.buf[1])]
    /\ gc_res_ch' = SyncChannel(<<>>, FALSE)
    /\ UNCHANGED <<gc_i, gc_hellos, gc_welcomes, gc_answer, gc_installed, gc_cb, gc_hello_ch,
                   gc_done_ch>>
    /\ GcUnchanged

\* the game coordinator answers the request to join, once, and the callback
\* thread calls the closure that is installed for the answer
GcAnswer ==
    \E reservationid \in HsReservations :
        /\ gc_pc = "join_wait"
        /\ gc_installed = "join"
        /\ gc_cb = CbIdle
        /\ gc_answer = None
        /\ gc_answer' = Some(reservationid)
        /\ gc_cb' = Callback("join", 1, reservationid, FALSE)
        /\ UNCHANGED <<gc_pc, gc_i, gc_hellos, gc_welcomes, gc_installed, gc_hello_ch,
                       gc_done_ch, gc_res_ch, gc_result>>
        /\ GcUnchanged

\* a step of the closure of do_request for request_join_server:
\* send.send(reservation).unwrap(), or sender_cl.send(true).unwrap()
CbJoin ==
    /\ gc_cb.closure = "join"
    /\ ~gc_cb.panicked
    /\ LET what == join_callback[gc_cb.step]
           ch   == IF what = "reservation" THEN gc_res_ch ELSE gc_done_ch
           ch1  == [ch EXCEPT !.buf = IF what = "reservation" THEN <<gc_cb.pkt>> ELSE <<TRUE>>]
       IN /\ sync_send(ch) # "full"
          /\ IF sync_send(ch) = "closed"
             THEN /\ gc_cb' = [gc_cb EXCEPT !.panicked = TRUE]
                  /\ UNCHANGED <<gc_res_ch, gc_done_ch>>
             ELSE /\ gc_cb' = IF gc_cb.step = Len(join_callback) THEN CbIdle
                              ELSE [gc_cb EXCEPT !.step = gc_cb.step + 1]
                  /\ gc_res_ch' = IF what = "reservation" THEN ch1 ELSE gc_res_ch
                  /\ gc_done_ch' = IF what = "reservation" THEN gc_done_ch ELSE ch1
    /\ UNCHANGED <<gc_pc, gc_i, gc_hellos, gc_welcomes, gc_answer, gc_installed, gc_hello_ch,
                   gc_result>>
    /\ GcUnchanged

\* the thread that calls do_hello_handshake, inside it
HelloThread == HelloSend \/ HelloRecv \/ HelloTimeout

NextSteam ==
    \/ HelloBegin \/ HelloSend \/ HelloRecv \/ HelloTimeout \/ GcWelcome \/ CbHello
    \/ JoinBegin \/ JoinSend \/ JoinDone \/ JoinTimeout \/ JoinRecv \/ GcAnswer \/ CbJoin

SpecSteam == Init /\ [][NextSteam]_vars

\* the thread in do_hello_handshake goes on running, and recv_timeout returns
SpecSteamFair == SpecSteam /\ WF_vars(HelloThread)

(***************************************************************************)
(* The claims                                                              *)
(***************************************************************************)
\* what the calls of read_subchannel_data in the last read_data have met
LastNotes == {last.notes[i] : i \in 1..Len(last.notes)}

\* the sequence number the peer reads in the datagram of the last write
LastSentSequence ==
    read_long(BitReader(decrypt_packet_buffer(last.datagram).val)).val

\* a > b on two sequence numbers, which are u32: one with the top bit set
\* (held as a negative number) is above every one without it
SequenceAfter(a, b) ==
    \/ a < 0 /\ b >= 0
    \/ (a < 0) = (b < 0) /\ a > b

\* C1: read_data returns Ok only for a frame whose sequence_in is above the
\* in_sequence the channel had before the call, and in_sequence is then that
\* sequence_in (so it has gone up); a frame whose sequence_in is the channel's
\* in_sequence or below it gets an error and leaves in_sequence as it was.
C1_SequenceStrictlyIncreases ==
    last.op = "read_data" =>
        /\ last.result = "Ok" =>
               /\ last.sequenced
               /\ SequenceAfter(last.header.sequence_in, last.in_sequence_before)
               /\ in_sequence = last.header.sequence_in
               /\ SequenceAfter(in_sequence, last.in_sequence_before)
        /\ (last.sequenced /\ ~SequenceAfter(last.header.sequence_in, last.in_sequence_before)) =>
               /\ last.result = "Err"
               /\ in_sequence = last.in_sequence_before

\* C1 witness: after a frame was accepted, a frame with the same sequence
\* number has come and was rejected
C1_Witness ==
    /\ last.op = "read_data"
    /\ last.sequenced
    /\ last.in_sequence_before >= 1
    /\ last.header.sequence_in = last.in_sequence_before
    /\ last.result = "Err"

\* C2: whatever the datagram, the length of what encrypt_packet returns is a
\* multiple of 8 and is 1 + pad_len + 4 + payload_len with 1 <= pad_len <= 8,
\* pad_len being the number it has written as the first byte of its buffer.
C2_EncryptPacketLength ==
    env_done >= 1 =>
        LET pad_len == encrypt_packet_buffer(env_payload)[1]
        IN /\ Len(env_wire) % 8 = 0
           /\ Len(env_wire) = 1 + pad_len + 4 + Len(env_payload)
           /\ pad_len >= 1
           /\ pad_len <= 8

\* C2 witness: encrypt_packet has returned for a payload that needs the full
\* eight bytes of padding and for one that needs a single byte
C2_Witness ==
    /\ env_done >= 1
    /\ Len(env_payload) = 3
    /\ Len(env_wire) = 16

\* C3: every write that puts a datagram on the wire (write_netmessage,
\* write_nop, write_datagram) adds one to out_sequence, the k-th datagram sent
\* carries the sequence number k, and a write that fails leaves out_sequence as
\* it was.
C3_OneSequencePerDatagram ==
    last.op \in {"write_netmessage", "write_nop", "write_datagram"} =>
        IF last.result = "Ok"
        THEN /\ out_sequence = last.out_sequence_before + 1
             /\ LastSentSequence = sent
        ELSE out_sequence = last.out_sequence_before

\* C3 witness: the second datagram on the wire carries the sequence number 1
C3_Witness ==
    /\ last.op = "write_nop"
    /\ last.result = "Ok"
    /\ sent = 2
    /\ LastSentSequence = 1

\* C4: a transfer that read_subchannel_data gives as complete has
\* num_fragments_ack = ceil(payload_size / 256) = num_fragments (the assertion
\* of unwrap_payload) and a buffer of payload_size bytes, or of
\* uncompressed_size bytes if it was compressed.
C4_CompleteTransferIsWhole ==
    \A n \in LastNotes :
        n.note.complete =>
            /\ n.num_fragments_ack = (n.note.payload_size + FRAGMENT_SIZE - 1) \div FRAGMENT_SIZE
            /\ n.num_fragments_ack = n.num_fragments
            /\ n.len = IF n.compressed.some THEN n.compressed.v ELSE n.note.payload_size

\* C4 witness: a transfer of three fragments was given as complete with two
\* of them received, and read_data has panicked
C4_Witness ==
    /\ last.result = "Panic"
    /\ \E n \in LastNotes :
          n.note.complete /\ n.num_fragments = 3 /\ n.num_fragments_ack = 2

\* C5: a pending transfer has num_fragments_ack <= num_fragments.
C5_AckWithinFragments ==
    \A stream_i \in 0..1 :
        subchannels[stream_i].transfer.some =>
            subchannels[stream_i].transfer.v.num_fragments_ack
                <= subchannels[stream_i].transfer.v.num_fragments

\* C5 witness: a pending transfer of three fragments has four acknowledged
C5_Witness ==
    /\ subchannels[0].transfer.some
    /\ subchannels[0].transfer.v.num_fragments = 3
    /\ subchannels[0].transfer.v.num_fragments_ack = 4

\* C6: when read_subchannel_data has taken a single block, it has read
\* payload_size bytes of payload, given the completed payload in that call, and
\* left no transfer pending.
C6_SingleBlockInOneReception ==
    \A n \in LastNotes :
        (n.note.single /\ n.kind = "ok") =>
            /\ n.note.complete
            /\ n.note.nbytes = n.note.payload_size
            /\ ~subchannels[n.stream].transfer.some

\* C6 witness: a single block of three bytes was taken, no byte of it was
\* read, and its transfer is pending
C6_Witness ==
    \E n \in LastNotes :
        /\ n.note.single
        /\ n.kind = "ok"
        /\ n.note.payload_size = 3
        /\ n.note.nbytes = 0
        /\ ~n.note.complete
        /\ subchannels[n.stream].transfer.some

\* C7: a frame for the subchannel index i does not create, advance, abort or
\* complete a transfer that is in progress for another index, and a stream the
\* frame does not update keeps its state.
C7_StatePerSlotAndStream ==
    last.op = "read_data" =>
        /\ \A n \in LastNotes :
              (n.kind = "ok" /\ n.pending_slot # -1) => n.pending_slot = n.subchan_i
        /\ \A stream_i \in 0..1 :
              (\A n \in LastNotes : n.stream # stream_i) =>
                  subchannels[stream_i] = last.subchannels_before[stream_i]

\* C7 witness: a frame for the subchannel index 1 has advanced the transfer
\* that a frame for the index 0 had started
C7_Witness ==
    \E n \in LastNotes :
        /\ n.kind = "ok"
        /\ n.subchan_i = 1
        /\ n.pending_slot = 0
        /\ ~n.note.created
        /\ subchannels[n.stream].transfer.some
        /\ subchannels[n.stream].transfer.v.num_fragments_ack = 2

\* C8: decrypt_packet of encrypt_packet of p is Ok(p), and the first byte of
\* the decrypted buffer (the pad count) is below 0x80.
C8_PacketRoundTrip ==
    env_done = 2 =>
        /\ env_result = Ok(env_payload)
        /\ env_buf[1] < 128

\* C8 witness: a non-empty payload has gone through both functions
C8_Witness ==
    /\ env_done = 2
    /\ Len(env_payload) = MaxEnvLen
    /\ env_result.ok

\* C9: read_data gives an error for every received datagram in which
\* pad_len + 1 + 4 + payload_len is not the length of the datagram, be
\* payload_len too large or too small.
C9_LyingLengthRejected ==
    (last.op = "read_data" /\ last.lied) => last.result = "Err"

\* C9 witness: a frame whose payload_len is two less than its payload was
\* accepted
C9_Witness ==
    /\ last.op = "read_data"
    /\ last.lied
    /\ last.result = "Ok"
    /\ in_sequence = last.header.sequence_in

\* C10: with a 16-byte key (n = 2), decrypt_buffer_inplace undoes
\* encrypt_buffer_inplace on every buffer of whole 8-byte blocks, and the
\* cipher text differs from the plain text.
C10_IceRoundTrip ==
    ice_done = 2 =>
        /\ ice_ptext = ice_buf
        /\ Len(ice_ctext) = Len(ice_buf)
        /\ (ice_buf # <<>> => ice_ctext # ice_buf)

\* C11: with n = 2 and the key "AAAAAAAAAAAAAAAA", "BBBBBBBB" encrypts to
\* AC 87 14 E3 22 82 56 80; with n = 8 and the 64-byte key of the test it
\* encrypts to F1 75 76 AB 4A 61 34 D7; decryption gives "BBBBBBBB" back.
C11_IceConformance ==
    (ice_done >= 1 /\ ice_buf = IceBlock(1)) =>
        /\ (ice_n = 2 /\ ice_key = IceKey(1)) =>
               ice_ctext = <<172, 135, 20, 227, 34, 130, 86, 128>>
        /\ (ice_n = 8 /\ ice_key = IceKey8) =>
               ice_ctext = <<241, 117, 118, 171, 74, 97, 52, 215>>
        /\ ice_done = 2 => ice_ptext = IceBlock(1)

\* C11 witness: the cipher with n = 8 has encrypted "BBBBBBBB" to the bytes of
\* the test and decrypted them
C11_Witness ==
    /\ ice_n = 8
    /\ ice_done = 2
    /\ ice_buf = <<66, 66, 66, 66, 66, 66, 66, 66>>
    /\ ice_ctext = <<241, 117, 118, 171, 74, 97, 52, 215>>

\* C12: read_int32_var on the bytes that write_int32_var(v) has written gives
\* v and leaves the reader right after these bytes, which are 1 to 5; 0 is
\* written as 00, 0x7F as 7F, 0x80 as 80 01, 0x3FFF as FF 7F and 0xFFFFFFFF as
\* FF FF FF FF 0F.
C12_VarintRoundTrip ==
    /\ (vi_done >= 1 /\ vi_written) =>
           /\ Len(vi_bytes) \in 1..5
           /\ vi_value = 0 => vi_bytes = <<0>>
           /\ vi_value = 127 => vi_bytes = <<127>>
           /\ vi_value = 128 => vi_bytes = <<128, 1>>
           /\ vi_value = 16383 => vi_bytes = <<255, 127>>
           /\ vi_value = -1 => vi_bytes = <<255, 255, 255, 255, 15>>
    /\ (vi_done = 2 /\ vi_written) =>
           /\ vi_result.ok
           /\ vi_result.val = vi_value
           /\ vi_result.rd.pos = 8 * Len(vi_bytes)

\* C12 witness: 0xFFFFFFFF was written as five bytes and read back with other
\* bytes behind it
C12_Witness ==
    /\ vi_done = 2
    /\ vi_written
    /\ vi_value = -1
    /\ vi_tail = <<1, 128>>
    /\ vi_result.ok
    /\ vi_result.val = -1

\* The bytes of vi_bytes that are groups of one varint: up to the first byte
\* without the high bit
VarintGroups(bytes) ==
    IF \E i \in 1..Len(bytes) : bytes[i] < 128
    THEN CHOOSE i \in 1..Len(bytes) : bytes[i] < 128 /\ \A j \in 1..(i - 1) : bytes[j] >= 128
    ELSE Len(bytes) + 1

\* C13: read_int32_var returns an error for bytes that need more than 5 groups
\* and for 5 groups whose last holds bits above the 32nd, and it never leaves
\* the reader more than 5 bytes further.
C13_OverlongRejected ==
    vi_done = 2 =>
        /\ (Len(vi_bytes) >= 5 /\ VarintGroups(vi_bytes) > 5) => ~vi_result.ok
        /\ (Len(vi_bytes) >= 5 /\ VarintGroups(vi_bytes) = 5 /\ vi_bytes[5] >= 16) =>
               ~vi_result.ok
        /\ vi_result.ok => vi_result.rd.pos <= 8 * 5

\* C13 witness: the six groups 80 80 80 80 80 01 have been read
C13_Witness ==
    /\ vi_done = 2
    /\ ~vi_written
    /\ vi_bytes = <<128, 128, 128, 128, 128, 1>>
    /\ ~vi_result.ok

\* the size the header of lz_input declares
LzExpectedSize == I32(lz_input[5], lz_input[6], lz_input[7], lz_input[8])

\* C14: when Lzss::decode returns Ok(output), output.len() is the size that the
\* header declares; a decode that leaves its loop with another length returns
\* SizeMismatch, and SizeMismatch is returned for nothing else.
C14_OkHasExpectedSize ==
    lz_done =>
        /\ lz_result.kind = "ok" =>
               /\ Len(lz_input) >= 8
               /\ Len(lz_result.val) = LzExpectedSize
        /\ (lz_result.kind = "err" /\ lz_result.error = "SizeMismatch") =>
               lz_result.produced # LzExpectedSize
        /\ (/\ lz_items # <<>>
            /\ LzssEmit(lz_items, <<>>) # <<-1>>
            /\ Len(LzssEmit(lz_items, <<>>)) < LzExpectedSize) =>
               /\ lz_result.kind = "err"
               /\ lz_result.error = "SizeMismatch"

\* C14 witness: the items put out fewer bytes than the header declares and the
\* decode has ended in SizeMismatch
C14_Witness ==
    /\ lz_done
    /\ lz_items = <<LzLit(65), LzRef(0, 2), LzEnd>>
    /\ LzExpectedSize = 4
    /\ lz_result.error = "SizeMismatch"
    /\ lz_result.produced = 3

\* C15: Lzss::decode puts out what the items of its input say: a command bit 0
\* one input byte, a command bit 1 a copy, byte by byte, of count bytes from
\* position back of the last byte of the output, up to the terminator (count 1).
\* An Ok output is what the items put out, items that put out the declared size
\* decode to it, and "LZSS" | le32(5) | 00 'H' 'e' 'l' 'l' 'o' | 01 00 00
\* decodes to "Hello".
C15_ReferenceItems ==
    lz_done =>
        /\ lz_input = LzssHello =>
               /\ lz_result.kind = "ok"
               /\ lz_result.val = <<72, 101, 108, 108, 111>>
        /\ (/\ lz_items # <<>>
            /\ LzssEmit(lz_items, <<>>) # <<-1>>
            /\ Len(LzssEmit(lz_items, <<>>)) = LzExpectedSize) =>
               /\ lz_result.kind = "ok"
               /\ lz_result.val = LzssEmit(lz_items, <<>>)
        /\ (lz_items # <<>> /\ lz_result.kind = "ok") =>
               lz_result.val = LzssEmit(lz_items, <<>>)

\* C15 witness: a reference that overlaps what it writes has repeated the byte
\* before it
C15_Witness ==
    /\ lz_done
    /\ lz_items = <<LzLit(65), LzRef(0, 16), LzEnd>>
    /\ lz_result.kind = "ok"
    /\ lz_result.val = [i \in 1..17 |-> 65]

\* the places of hs_sent that hold a packet of the type
HsSentOf(type) == {i \in DOMAIN hs_sent : hs_sent[i].type = type}

\* the u32 that the eight digits after "connect0x" stand for
HexValue(ch) == (CHOOSE i \in 1..16 : HexDigits[i] = ch) - 1
CookieOf(connect_string) ==
    I32(16 * HexValue(connect_string[16]) + HexValue(connect_string[17]),
        16 * HexValue(connect_string[14]) + HexValue(connect_string[15]),
        16 * HexValue(connect_string[12]) + HexValue(connect_string[13]),
        16 * HexValue(connect_string[10]) + HexValue(connect_string[11]))

\* C16: run() sends at most two A2S_GETCHALLENGE and one C2S_CONNECT, and both
\* A2S_GETCHALLENGE before the C2S_CONNECT; the first A2S_GETCHALLENGE says
\* "connect0x00000000", the second one "connect0x" and the challenge_num of the
\* first S2C_CHALLENGE; the C2S_CONNECT is sent after both S2C_CHALLENGE, the
\* reservation and the ticket, with the challenge_num of the second
\* S2C_CHALLENGE; the NetChannel is there only after two S2C_CONNECTION.
C16_HandshakeOrder ==
    /\ Cardinality(HsSentOf("A2S_GETCHALLENGE")) <= 2
    /\ Cardinality(HsSentOf("C2S_CONNECT")) <= 1
    /\ \A i \in HsSentOf("A2S_GETCHALLENGE") :
          IF \A j \in HsSentOf("A2S_GETCHALLENGE") : i <= j
          THEN hs_sent[i].connect_string =
                   ConnectPrefix \o <<"0", "x", "0", "0", "0", "0", "0", "0", "0", "0">>
          ELSE /\ hs_res.type = "S2C_CHALLENGE"
               /\ Len(hs_sent[i].connect_string) = 17
               /\ SubSeq(hs_sent[i].connect_string, 1, 9) = ConnectPrefix \o <<"0", "x">>
               /\ CookieOf(hs_sent[i].connect_string) = hs_res.challenge_num
    /\ \A k \in HsSentOf("C2S_CONNECT") :
          /\ Cardinality({i \in HsSentOf("A2S_GETCHALLENGE") : i < k}) = 2
          /\ hs_res.type = "S2C_CHALLENGE"
          /\ hs_chal.type = "S2C_CHALLENGE"
          /\ hs_sent[k].challenge_num = hs_chal.challenge_num
          /\ hs_reservation.some
          /\ hs_ticket.some
          /\ hs_sent[k].lobby_cookie = hs_reservation.v
          /\ hs_sent[k].auth_ticket = hs_ticket.v
    /\ hs_channel =>
          /\ hs_replies = 2
          /\ Cardinality(HsSentOf("A2S_GETCHALLENGE")) = 2
          /\ Cardinality(HsSentOf("C2S_CONNECT")) = 1

\* C16 witness: the channel is there after a handshake whose two S2C_CHALLENGE
\* gave different challenge numbers
C16_Witness ==
    /\ hs_channel
    /\ hs_res.challenge_num = -559038737
    /\ hs_chal.challenge_num = 305419896
    /\ hs_sent[3].connect_string = ConnectPrefix \o <<"0", "x", "d", "e", "a", "d", "b", "e", "e", "f">>
    /\ hs_sent[4].challenge_num = 305419896

\* of HsContexts, the contexts that begin with "connect"
BeginsWithConnect(context_response) ==
    context_response \in {"connect0x00000000", "connect-retry"}

\* C17: a C2S_CONNECT is sent only on a challenge response whose context begins
\* with "connect" and is not "connect-retry": after a "connect-retry" the client
\* asks again and sends no C2S_CONNECT.
C17_RetryNeverConnects ==
    \A k \in HsSentOf("C2S_CONNECT") :
        /\ ~should_retry(hs_chal)
        /\ BeginsWithConnect(hs_chal.context_response)

\* C17 witness: the first S2C_CHALLENGE said "connect-retry" and the client has
\* asked again with its challenge_num
C17_Witness ==
    /\ should_retry(hs_res)
    /\ Cardinality(HsSentOf("A2S_GETCHALLENGE")) = 2
    /\ CookieOf(hs_sent[3].connect_string) = hs_res.challenge_num
    /\ hs_res.challenge_num = 305419896

\* the last call was read_data on the peer's RELIABLE frame of that kind
LastFrameIs(kind) ==
    /\ last.op = "read_data"
    /\ last.datagram = PeerEnvelope(PeerFrame(kind, last.in_sequence_before + 1, 0), "exact")

\* C18: a transfer that a subchannel holds, and one that a call has made, is
\* of 1 to 2^26 - 1 bytes, and of no more than 2^26 - 1 bytes uncompressed when it
\* is compressed; a first fragment that declares a payload of 0 bytes gets an
\* error, makes no transfer and leaves the transfer in flight as it was.
C18_TransferSizes ==
    /\ \A stream_i \in 0..1 :
          subchannels[stream_i].transfer.some =>
              /\ Len(subchannels[stream_i].transfer.v.buffer) > 0
              /\ Len(subchannels[stream_i].transfer.v.buffer) <= 67108863
              /\ subchannels[stream_i].compressed.some =>
                     subchannels[stream_i].compressed.v <= 67108863
    /\ last.op = "read_data" =>
          \A n \in LastNotes :
              n.note.created =>
                  /\ n.note.payload_size > 0
                  /\ n.note.payload_size <= 67108863
                  /\ n.compressed.some => n.compressed.v <= 67108863
    /\ (LastFrameIs("Z") \/ LastFrameIs("ZS")) =>
          /\ last.result = "Err"
          /\ \A n \in LastNotes : n.kind = "err" /\ ~n.note.created
          /\ subchannels[0].transfer = last.subchannels_before[0].transfer
          /\ subchannels[1].transfer = last.subchannels_before[1].transfer

\* C18 witness: a first fragment that declares 0 bytes has come while a
\* transfer was in flight, and the transfer is still there
C18_Witness ==
    /\ LastFrameIs("Z")
    /\ last.result = "Err"
    /\ last.subchannels_before[0].transfer.some
    /\ subchannels[0].transfer.some
    /\ subchannels[0].transfer.v.num_fragments_ack = 1

\* C19: a first chunk (start_frag 0) that declares 0 fragments gets an error
\* from read_subchannel_data, and no transfer is pending that was not pending
\* before it.
C19_EmptyFirstChunkRejected ==
    LastFrameIs("N0") =>
        /\ last.result = "Err"
        /\ \A n \in LastNotes : n.kind = "err" /\ ~n.note.created
        /\ subchannels[0].transfer = last.subchannels_before[0].transfer

\* C19 witness: the first chunk of no fragments has been read by a channel
\* that had no transfer pending
C19_Witness ==
    /\ LastFrameIs("N0")
    /\ ~last.subchannels_before[0].transfer.some
    /\ \E n \in LastNotes : ~n.note.single /\ n.note.nbytes = 0

\* the datagram of the last read_data has a sentinel in front as it came
LastSentinelReceived ==
    /\ last.op = "read_data"
    /\ SentinelOf(last.datagram) # "none"

\* the datagram of the last read_data has a sentinel in front once decrypted
LastSentinelDecrypted ==
    /\ last.op = "read_data"
    /\ SentinelOf(last.datagram) = "none"
    /\ Len(last.datagram) >= 8
    /\ Len(last.datagram) % 8 = 0
    /\ decrypt_packet_buffer(last.datagram).ok
    /\ SentinelOf(decrypt_packet_buffer(last.datagram).val) # "none"

\* C20: for a datagram with 0xFFFFFFFE or 0xFFFFFFFF in front, as it comes or
\* once decrypted, read_data returns an error, and the channel is as it was and
\* takes the next datagram.
C20_SentinelFatalForFrameOnly ==
    (LastSentinelReceived \/ LastSentinelDecrypted) =>
        /\ last.result = "Err"
        /\ status = "up"
        /\ in_sequence = last.in_sequence_before
        /\ subchannels = last.subchannels_before

\* C20 witness: read_data has met the connectionless header in a datagram
\* that it had decrypted
C20_Witness ==
    /\ LastSentinelDecrypted
    /\ SentinelOf(decrypt_packet_buffer(last.datagram).val) = "connectionless"
    /\ last.result # "Ok"

\* C10 witness: a buffer of more than one block has been encrypted and decrypted
C10_Witness ==
    /\ ice_done = 2
    /\ Len(ice_buf) = 16
    /\ ice_ptext = ice_buf

\* the conformance vector of the cipher's tests: key "AAAAAAAAAAAAAAAA",
\* plain text "BBBBBBBB"
IceVector ==
    (ice_key = [i \in 1..16 |-> 65] /\ ice_buf = [i \in 1..8 |-> 66] /\ ice_done >= 1)
        => ice_ctext = <<172, 135, 20, 227, 34, 130, 86, 128>>

RECURSIVE MsgExpectedFrom(_, _)
\* the messages that the items from index i on stand for, as NetMessage values
MsgExpectedFrom(items, i) ==
    IF i > Len(items) THEN <<>>
    ELSE (IF items[i].known THEN <<[id |-> items[i].id, len |-> Len(items[i].body)]>>
          ELSE <<>>) \o MsgExpectedFrom(items, i + 1)

MsgExpected(items) == MsgExpectedFrom(items, 1)

\* the frames of MsgFrames that the datagram of the last read_data holds
LastMsgFrames ==
    IF last.op # "read_data" THEN {}
    ELSE {f \in MsgFrames : last.datagram = MsgDatagram(f, last.in_sequence_before + 1)}

\* what get_messages gives for the datagram of the last read_data, None as <<>>
LastMessages == IF last.messages.some THEN last.messages.v ELSE <<>>

\* an item of an unknown id is among items
HasUnknown(items) == \E i \in 1..Len(items) : items[i] = MsgUnknown37

\* C21: a frame that holds a message of an unknown id, whole, is accepted, and
\* read_messages gives the messages of known ids before and after it, in the
\* order of the wire, and nothing of the unknown one.
C21_UnknownIdSkipped ==
    \A f \in LastMsgFrames :
        (~f.cut /\ (HasUnknown(f.sub) \/ HasUnknown(f.trail))) =>
            /\ last.result = "Ok"
            /\ LastMessages = MsgExpected(f.sub) \o MsgExpected(f.trail)
            /\ \A i \in 1..Len(LastMessages) : LastMessages[i].id # MsgUnknown37.id

\* C21 witness: a frame of net_Tick, a message of id 37 and net_SignonState
\* was read, and net_Tick and net_SignonState were given
C21_Witness ==
    /\ MsgFrame(FALSE, <<>>, <<MsgTick, MsgUnknown37, MsgSignon>>, FALSE) \in LastMsgFrames
    /\ last.result = "Ok"
    /\ LastMessages = <<[id |-> 4, len |-> 0], [id |-> 7, len |-> 2]>>

\* C22: the messages of a datagram are never Some of an empty list and hold
\* no NOP; for a frame of the peer they are None exactly when neither the
\* completed payload nor the rest of the frame holds a message that is not a
\* NOP, and otherwise the messages of the payload, then those of the rest of
\* the frame, each in the order of the wire.
C22_MessagesNoneOrNonEmpty ==
    /\ last.messages.some =>
           /\ Len(last.messages.v) > 0
           /\ \A i \in 1..Len(last.messages.v) : last.messages.v[i].id # 0
    /\ \A f \in LastMsgFrames :
           ~f.cut =>
               /\ last.result = "Ok"
               /\ ~last.messages.some <=>
                      (MsgExpected(f.sub) \o MsgExpected(f.trail) = <<>>)
               /\ last.messages.some =>
                      last.messages.v = MsgExpected(f.sub) \o MsgExpected(f.trail)

\* C22 witness: a frame whose completed payload is a NOP and whose rest is a
\* NOP was accepted, and its messages are None
C22_Witness ==
    /\ MsgFrame(TRUE, <<MsgNop>>, <<MsgNop>>, FALSE) \in LastMsgFrames
    /\ last.result = "Ok"
    /\ ~last.messages.some

\* C23: when read_data returns an error, in_sequence, out_sequence_ack,
\* reliable_state and the subchannels (pending transfers, fragment counts,
\* in_reliable_state) are what they were before the call.
C23_ErrorLeavesState ==
    (last.op = "read_data" /\ last.result = "Err") =>
        /\ in_sequence = last.in_sequence_before
        /\ out_sequence_ack = last.out_sequence_ack_before
        /\ reliable_state = last.reliable_state_before
        /\ subchannels = last.subchannels_before

\* C23 witness: a frame that holds a whole transfer and then a message cut
\* short got an error, and the channel has toggled reliable_state and the
\* in_reliable_state of the stream and has kept the size of the transfer
C23_Witness ==
    /\ MsgFrame(TRUE, <<MsgSignon>>, <<MsgTick>>, TRUE) \in LastMsgFrames
    /\ last.result = "Err"
    /\ in_sequence = last.in_sequence_before
    /\ reliable_state # last.reliable_state_before
    /\ subchannels[0].in_reliable_state # last.subchannels_before[0].in_reliable_state
    /\ subchannels[0].payload_size = 4

\* state ^ (1 << i)
FlipBit(state, i) ==
    IF (state \div Pow2(i)) % 2 = 1 THEN state - Pow2(i) ELSE state + Pow2(i)

\* C24: after an accepted frame reliable_state is what it was, with the bit of
\* the frame's subchannel index toggled if the frame has the RELIABLE flag and
\* a stream of it has consumed subchannel data, and unchanged if the frame has
\* no RELIABLE flag or none of its streams has consumed data.
C24_ToggledOnConsumption ==
    (last.op = "read_data" /\ last.result = "Ok") =>
        IF last.header.flags % 2 = 1 /\ \E n \in LastNotes : n.kind = "ok"
        THEN \A n \in LastNotes :
                 reliable_state = FlipBit(last.reliable_state_before, n.subchan_i)
        ELSE reliable_state = last.reliable_state_before

\* C24 witness: a RELIABLE frame that updates no stream was accepted, and
\* reliable_state has the bit of its subchannel index toggled
C24_Witness ==
    /\ MsgFrame(TRUE, <<>>, <<>>, FALSE) \in LastMsgFrames
    /\ last.result = "Ok"
    /\ LastNotes = {}
    /\ reliable_state = FlipBit(last.reliable_state_before, 0)

\* C25: a call of read_data toggles the in_reliable_state of a stream if a
\* transfer of the stream has completed in it, once, and leaves it as it was
\* if none has: a chunk that leaves the transfer pending does not toggle it.
C25_ToggledOnCompletionOnly ==
    last.op = "read_data" =>
        \A stream_i \in 0..1 :
            subchannels[stream_i].in_reliable_state =
                IF \E n \in LastNotes : n.stream = stream_i /\ n.note.complete
                THEN ~last.subchannels_before[stream_i].in_reliable_state
                ELSE last.subchannels_before[stream_i].in_reliable_state

\* C25 witness: the first fragment of a transfer of three was taken, the
\* transfer is pending, and in_reliable_state was toggled
C25_Witness ==
    /\ LastFrameIs("A0")
    /\ last.result = "Ok"
    /\ subchannels[0].transfer.some
    /\ subchannels[0].transfer.v.num_fragments_ack = 1
    /\ subchannels[0].transfer.v.num_fragments = 3
    /\ subchannels[0].in_reliable_state # last.subchannels_before[0].in_reliable_state

\* the chunks of FragChunks that the datagram of the last read_data holds
LastFragChunks ==
    IF last.op # "read_data" THEN {}
    ELSE {c \in FragChunks : last.datagram = FragDatagram(c, last.in_sequence_before + 1)}

\* C26: when read_data has accepted a frame in which a transfer was completed
\* and its payload given, every fragment 0 .. num_fragments - 1 of the transfer
\* was written by a chunk received for it.
C26_DeliveredIsWhole ==
    (last.op = "read_data" /\ last.result = "Ok") =>
        \A n \in LastNotes :
            n.note.complete => n.written = 0..(n.num_fragments - 1)

\* C26 witness: a transfer of four fragments was completed and its payload
\* given with num_fragments_ack = 4, and no chunk has written fragment 2
C26_Witness ==
    /\ FragChunk(LongPayload, 3, 1) \in LastFragChunks
    /\ last.result = "Ok"
    /\ \E n \in LastNotes :
          /\ n.note.complete
          /\ n.num_fragments = 4
          /\ n.num_fragments_ack = 4
          /\ n.written = {0, 1, 3}
          /\ \A i \in 513..768 : n.payload[i] = 0

\* the number of fragments of the transfer that the chunk c of the last
\* read_data is for: the transfer it starts, or the one that was pending (0 if
\* none was)
LastFragTotal(c) ==
    IF c.start_frag = 0 THEN (Len(c.payload) + FRAGMENT_SIZE - 1) \div FRAGMENT_SIZE
    ELSE IF last.subchannels_before[0].transfer.some
    THEN last.subchannels_before[0].transfer.v.num_fragments
    ELSE 0

\* C27: a chunk with start_frag + num_frags above the number of fragments of
\* its transfer gets an error, and the pending transfer (buffer,
\* num_fragments_ack) and in_reliable_state are what they were before it.
C27_OutOfBoundsRejected ==
    \A c \in LastFragChunks :
        (LastFragTotal(c) > 0 /\ c.start_frag + c.num_frags > LastFragTotal(c)) =>
            /\ last.result = "Err"
            /\ subchannels[0].transfer = last.subchannels_before[0].transfer
            /\ subchannels[0].in_reliable_state
                   = last.subchannels_before[0].in_reliable_state

\* C27 witness: while a transfer had two fragments acknowledged, a first chunk
\* of three fragments for a payload of two got an error, and an empty transfer
\* of two fragments is pending in its place
C27_Witness ==
    /\ FragChunk(ShortPayload, 0, 3) \in LastFragChunks
    /\ last.result = "Err"
    /\ last.subchannels_before[0].transfer.some
    /\ last.subchannels_before[0].transfer.v.num_fragments_ack = 2
    /\ subchannels[0].transfer.some
    /\ subchannels[0].transfer.v.num_fragments = 2
    /\ subchannels[0].transfer.v.num_fragments_ack = 0

\* C28: for a chunk that does not reach beyond the last fragment of its
\* transfer, read_fragments works out the length to receive without a wrap of
\* the usize (the build that checks the arithmetic panics there, the other at
\* the slice), and the bytes it receives from start_frag * 256 on lie within the
\* payload_size bytes of the buffer.
C28_ReceiveRangeInBuffer ==
    \A c \in LastFragChunks :
        (LastFragTotal(c) > 0 /\ c.start_frag + c.num_frags <= LastFragTotal(c)) =>
            \A n \in LastNotes :
                /\ n.kind # "panic"
                /\ n.kind = "ok" =>
                       c.start_frag * FRAGMENT_SIZE + n.note.nbytes <= n.note.payload_size

\* C28 witness: a chunk of no fragments with start_frag = 4 has come for a
\* transfer of four fragments and 769 bytes, and read_data has panicked
C28_Witness ==
    /\ FragChunk(LongPayload, 4, 0) \in LastFragChunks
    /\ last.subchannels_before[0].transfer.some
    /\ last.subchannels_before[0].transfer.v.num_fragments = 4
    /\ last.result = "Panic"
    /\ \E n \in LastNotes : n.kind = "panic"

\* C29: a first chunk that is accepted while a transfer is in flight leaves a
\* transfer of the new payload_size that holds what this chunk has brought
\* and nothing else: its fragments counted and written, its bytes, and zeros
\* after them.  A payload that is given once the second fragment of the short
\* payload has come for such a transfer is the short payload.
C29_AbortStartsAfresh ==
    \A c \in LastFragChunks :
        \A n \in LastNotes :
            /\ (n.kind = "ok" /\ n.note.created /\ n.pending_slot # -1) =>
                   /\ subchannels[0].transfer.some
                   /\ subchannels[0].payload_size = Len(c.payload)
                   /\ subchannels[0].transfer.v.num_fragments
                          = (Len(c.payload) + FRAGMENT_SIZE - 1) \div FRAGMENT_SIZE
                   /\ subchannels[0].transfer.v.num_fragments_ack = c.num_frags
                   /\ subchannels[0].transfer.v.written = 0..(c.num_frags - 1)
                   /\ subchannels[0].transfer.v.buffer
                          = ChunkBytes(c)
                                \o [i \in 1..(Len(c.payload) - Len(ChunkBytes(c))) |-> 0]
            /\ (/\ last.result = "Ok"
                /\ c = FragChunk(ShortPayload, 1, 1)
                /\ n.note.complete
                /\ n.len = Len(ShortPayload)) =>
                   /\ n.payload = ShortPayload
                   /\ n.num_fragments_ack = 2

\* C29 witness: while a transfer of 769 bytes had two fragments acknowledged,
\* the first fragment of the short payload was accepted, and the transfer in
\* flight is of 257 bytes with one fragment acknowledged
C29_Witness ==
    /\ FragChunk(ShortPayload, 0, 1) \in LastFragChunks
    /\ last.result = "Ok"
    /\ last.subchannels_before[0].transfer.some
    /\ Len(last.subchannels_before[0].transfer.v.buffer) = 769
    /\ last.subchannels_before[0].transfer.v.num_fragments_ack = 2
    /\ subchannels[0].transfer.some
    /\ Len(subchannels[0].transfer.v.buffer) = 257
    /\ subchannels[0].transfer.v.num_fragments_ack = 1

\* C30: a transfer whose first fragment says it is not compressed is not held
\* as compressed, whatever transfers the stream has had before, and the whole
\* payload of 513 bytes sent uncompressed in one frame is given as it was sent.
C30_AttributesOfOwnHeader ==
    /\ \A kind \in ReliableKinds \ {"C"} :
           LastFrameIs(kind) =>
               \A n \in LastNotes : n.note.created => ~n.compressed.some
    /\ LastFrameIs("W") =>
           /\ last.result = "Ok"
           /\ \E n \in LastNotes :
                 /\ n.note.complete
                 /\ n.payload = Fragment0 \o Fragment1 \o Fragment2

\* C30 witness: the whole payload sent uncompressed has come after a transfer
\* that was said to be compressed, was taken as compressed, and got an error
C30_Witness ==
    /\ LastFrameIs("W")
    /\ last.subchannels_before[0].compressed.some
    /\ last.result = "Err"
    /\ \E n \in LastNotes : n.note.created /\ n.compressed.some /\ ~n.note.complete

\* C31: a transfer whose payload does not decompress at completion is aborted:
\* the frame that completes it gets an error and no transfer is pending on that
\* reassembler afterwards.
C31_FailedCompletionAborts ==
    LastFrameIs("C") =>
        /\ last.result = "Err"
        /\ ~subchannels[0].transfer.some

\* C31 witness: the frame said to be compressed has completed a transfer whose
\* two bytes do not decompress, and the transfer is still held with every
\* fragment counted
C31_Witness ==
    /\ LastFrameIs("C")
    /\ last.result = "Err"
    /\ ~last.subchannels_before[0].transfer.some
    /\ subchannels[0].transfer.some
    /\ subchannels[0].transfer.v.num_fragments_ack = subchannels[0].transfer.v.num_fragments

\* the datagram of the last write as write_datagram has built it in the
\* scratch buffer
LastScratch == decrypt_packet_buffer(last.datagram).val

\* C32: a datagram written carries the channel's out_sequence, then its
\* in_sequence (that of the last frame accepted, 0 before any), then the flags
\* with PACKET_CHOKED set if and only if choked_num > 0, the byte of choked_num
\* present if and only if the flag is set, and as reliable_state the channel's,
\* which only accepted frames have toggled: it is 0 while no frame was accepted.
C32_WrittenHeader ==
    (last.op \in {"write_netmessage", "write_nop", "write_datagram"} /\ last.result = "Ok") =>
        /\ SubSeq(LastScratch, 1, 4) = write_long(last.out_sequence_before)
        /\ SubSeq(LastScratch, 5, 8) = write_long(in_sequence)
        /\ ((LastScratch[9] \div PACKET_CHOKED) % 2 = 1) <=> (choked_num > 0)
        /\ last.op = "write_nop" =>
               Len(LastScratch) = (IF choked_num > 0 THEN 13 ELSE 12)
        /\ LastScratch[12] = reliable_state
        /\ in_sequence = 0 => LastScratch[12] = 0

\* C32 witness: a datagram was written by a channel that has accepted no frame
\* and has had a frame rejected for a message cut short after its subchannel
\* section
C32_Witness ==
    /\ last.op = "write_nop"
    /\ last.result = "Ok"
    /\ in_sequence = 0
    /\ reliable_state = 1
    /\ LastScratch[12] = 1

\* C33: no frame is accepted whose sequence_in is one of the three reserved
\* values 0xFFFFFFFD, 0xFFFFFFFE, 0xFFFFFFFF, and in_sequence is never one of
\* them.
C33_NoSentinelAccepted ==
    /\ in_sequence \notin {NET_HEADER_FLAG_COMPRESSEDPACKET, NET_HEADER_FLAG_SPLITPACKET,
                           CONNECTIONLESS_HEADER}
    /\ (last.op = "read_data" /\ last.result = "Ok") =>
           last.header.sequence_in \notin {NET_HEADER_FLAG_COMPRESSEDPACKET,
                                           NET_HEADER_FLAG_SPLITPACKET,
                                           CONNECTIONLESS_HEADER}

\* C33 witness: a frame that begins with 0xFFFFFFFE once decrypted was accepted
\* and its first value is the channel's in_sequence
C33_Witness ==
    /\ last.op = "read_data"
    /\ last.result = "Ok"
    /\ last.datagram = PeerEnvelope(PeerFrame("nop", NET_HEADER_FLAG_SPLITPACKET,
                                              last.header.sequence_ack), "exact")
    /\ in_sequence = NET_HEADER_FLAG_SPLITPACKET

\* what of a result of read_data the channel and its caller see
Seen(o) ==
    [result |-> o.result, in_sequence |-> o.in_sequence,
     out_sequence_ack |-> o.out_sequence_ack, reliable_state |-> o.reliable_state,
     subchannels |-> o.subchannels, header |-> o.header, messages |-> o.messages]

\* the channel before the last call
ChannelBefore ==
    [in_sequence |-> last.in_sequence_before,
     out_sequence_ack |-> last.out_sequence_ack_before,
     reliable_state |-> last.reliable_state_before,
     subchannels |-> last.subchannels_before]

\* the frames whose compressed form the datagram of the last read_data holds
LastCompressedFrames ==
    IF last.op # "read_data" THEN {}
    ELSE {frame \in {FormFrame(kind, last.in_sequence_before + d) :
                        kind \in FormKinds, d \in 0..1} :
             \E form \in FrameForms \ {"plain"} :
                 last.datagram = PeerEnvelope(FrameForm(frame, form), "exact")}

\* C34: read_data on a frame that comes compressed (0xFFFFFFFD, then the LZSS
\* stream of the frame) gives what it gives on the frame itself from the same
\* channel: the same result, datagram (header and messages), in_sequence,
\* out_sequence_ack, reliable_state and subchannels.
C34_CompressedAsPlain ==
    \A frame \in LastCompressedFrames :
        Seen([result |-> last.result, in_sequence |-> in_sequence,
              out_sequence_ack |-> out_sequence_ack, reliable_state |-> reliable_state,
              subchannels |-> subchannels, header |-> last.header,
              messages |-> last.messages])
            \in {Seen(o) : o \in ReadOutcomes(ChannelBefore,
                                              Received("none", PeerEnvelope(frame, "exact")))}

\* C34 witness: a frame with a whole transfer of one message came compressed
\* with references, was accepted, and gave the message
C34_Witness ==
    /\ last.op = "read_data"
    /\ last.datagram = PeerEnvelope(FrameForm(FormFrame("small", 1), "references"), "exact")
    /\ FrameForm(FormFrame("small", 1), "references")
           # FrameForm(FormFrame("small", 1), "literals")
    /\ last.result = "Ok"
    /\ in_sequence = 1
    /\ out_sequence_ack = 1
    /\ reliable_state = 1
    /\ last.messages = Some(<<[id |-> 4, len |-> 0]>>)

\* the frames of AckFrames and the checksums that the datagram of the last
\* read_data holds
LastAckFrames ==
    IF last.op # "read_data" THEN {}
    ELSE {fc \in AckFrames \X (0..65535 \cap
                 UNION {FrameChecksums(MsgFrameBytes(f, last.in_sequence_before + 1)) :
                           f \in AckFrames}) :
             last.datagram = AckDatagram(fc[1], last.in_sequence_before + 1, fc[2])}

\* what the channel and its caller see of a result, but for the checksum that
\* the datagram records
SeenBesidesChecksum(o) ==
    [Seen(o) EXCEPT !.header = [Seen(o).header EXCEPT !.checksum = 0]]

\* the 16-bit fold of the CRC-32 of the bytes that follow the checksum field,
\* for the datagrams written here (reliable_state 0 or 1, then nothing,
\* net_Tick or net_SignonState), as CRC-32 is tabulated
KnownChecksum(sum_area) ==
    CASE sum_area = <<0>> -> 15759
      [] sum_area = <<0, 4, 0>> -> 34619
      [] sum_area = <<0, 7, 2, 8, 2>> -> 36424
      [] sum_area = <<1>> -> 31262
      [] sum_area = <<1, 4, 0>> -> 60622
      [] sum_area = <<1, 7, 2, 8, 2>> -> 39576

\* C35: read_data does not verify the checksum: a frame gives the same result,
\* the same datagram but for the checksum it records, and leaves the same
\* channel whatever its checksum field holds; a datagram written has in its
\* checksum field (offset 9, 16 bits, low byte first) the low 16 bits of the
\* CRC-32 of all that follows the field XOR its high 16 bits.
C35_ChecksumWrittenNotVerified ==
    /\ \A fc \in LastAckFrames :
           /\ last.sequenced => last.header.checksum = fc[2]
           /\ \A checksum \in FrameChecksums(MsgFrameBytes(fc[1], last.in_sequence_before + 1)) :
                  SeenBesidesChecksum(
                      [result |-> last.result, in_sequence |-> in_sequence,
                       out_sequence_ack |-> out_sequence_ack,
                       reliable_state |-> reliable_state, subchannels |-> subchannels,
                       header |-> last.header, messages |-> last.messages])
                      = SeenBesidesChecksum(
                            read_data(ChannelBefore,
                                      Received("none",
                                               AckDatagram(fc[1], last.in_sequence_before + 1,
                                                           checksum)), 0))
    /\ (last.op \in {"write_netmessage", "write_nop", "write_datagram"} /\ last.result = "Ok") =>
           LastScratch[10] + 256 * LastScratch[11]
               = KnownChecksum(SubSeq(LastScratch, 12, Len(LastScratch)))

\* C35 witness: after a datagram was written, a RELIABLE frame whose checksum
\* field holds 0xBEEF, which is not the checksum of its bytes, was accepted,
\* its message given and 0xBEEF recorded
C35_Witness ==
    /\ last.op = "read_data"
    /\ sent >= 1
    /\ last.datagram = AckDatagram(MsgFrame(TRUE, <<>>, <<MsgTick>>, FALSE), 1, 48879)
    /\ shortened_checksum(MsgFrameBytes(MsgFrame(TRUE, <<>>, <<MsgTick>>, FALSE), 1)) # 48879
    /\ last.result = "Ok"
    /\ last.header.checksum = 48879
    /\ last.messages = Some(<<[id |-> 4, len |-> 0]>>)
    /\ in_sequence = 1

\* C36: the output of Lzss::decode never holds more bytes than the header
\* declares, whatever the items, so when the decode ends output.len() is at
\* most the declared size.
C36_OutputWithinExpectedSize ==
    (lz_done /\ Len(lz_input) >= 8) => lz_result.produced <= LzExpectedSize

\* C36 witness: under a header that declares 16 bytes a literal and a
\* reference of 16 bytes were decoded, and the decode has ended with 17
C36_Witness ==
    /\ lz_done
    /\ lz_items = <<LzLit(65), LzRef(0, 16), LzEnd>>
    /\ LzExpectedSize = 16
    /\ lz_result.produced = 17

\* the first item is a reference, met when the output is empty, or the second
\* is one that starts a byte before the single literal put out
StartsBeforeOutput(items) ==
    /\ items # <<>>
    /\ \/ items[1][1] = "ref"
       \/ /\ Len(items) >= 2
          /\ items[1][1] = "lit"
          /\ items[2] = LzRef(1, 3)
          /\ LzExpectedSize >= 1

\* C37: a reference that starts before the first byte of the output (one met
\* when the output is empty, one whose position is above output.len() - 1)
\* ends the decode with the error BadData, and no usize has wrapped or
\* overflowed on the way.
C37_BadReferenceIsBadData ==
    (lz_done /\ StartsBeforeOutput(lz_items)) =>
        /\ lz_result.kind = "err"
        /\ lz_result.error = "BadData"
        /\ ~lz_result.wrapped

\* C37 witness: a reference of 2 bytes at position 0 was the first item, under
\* a header that declares 0 bytes, and the decode has returned Ok in a build
\* without overflow checks
C37_Witness ==
    /\ lz_done
    /\ lz_items = <<LzRef(0, 2), LzEnd>>
    /\ LzExpectedSize = 0
    /\ lz_result.kind = "ok"
    /\ lz_result.wrapped

\* the input ends in the header, at a command byte, inside a reference or at a
\* literal, before a terminator and before the declared size was put out
ShortInput ==
    \/ lz_input \in {<<>>, <<76, 90, 83>>, LZSS_HEADER \o <<1, 0>>,
                     LZSS_HEADER \o <<1, 0, 0, 0>>,
                     LZSS_HEADER \o <<1, 0, 0, 0>> \o <<1, 0>>,
                     LZSS_HEADER \o <<2, 0, 0, 0>> \o <<0, 65>>}
    \/ /\ lz_items # <<>>
       /\ \A i \in 1..Len(lz_items) : lz_items[i][1] = "lit"
       /\ Len(lz_items) < LzExpectedSize

\* C38: for an input that ends early Lzss::decode returns an error, and it has
\* neither read its input past the end nor panicked.
C38_ShortInputIsError ==
    (lz_done /\ ShortInput) =>
        /\ lz_result.kind = "err"
        /\ ~lz_result.ub

\* C38 witness: the input has ended at the second of two literals that the
\* header declares, and the decode has read past its end and panicked
C38_Witness ==
    /\ lz_done
    /\ lz_input = LZSS_HEADER \o <<2, 0, 0, 0>> \o <<0, 65>>
    /\ lz_result.kind = "panic"
    /\ lz_result.ub

\* C39: do_hello_handshake sends one hello per attempt and at most HELLO_TRIES
\* of them; it returns Ok at the first welcome it receives, with no hello sent
\* after it, returns the error at once when a send fails, returns the timeout
\* error only when all HELLO_TRIES attempts of one second each have timed out,
\* and it always returns.
C39_HelloHandshakeReturns ==
    /\ [](/\ gc_hellos <= HELLO_TRIES
          /\ gc_pc = "hello_send" => gc_hellos = gc_i /\ gc_i < HELLO_TRIES
          /\ gc_pc = "hello_wait" => gc_hellos = gc_i + 1
          /\ gc_result.hello = "Ok" => gc_hellos = gc_i + 1 /\ gc_welcomes >= 1
          /\ gc_result.hello = "SendErr" => gc_hellos = gc_i /\ gc_i < HELLO_TRIES
          /\ gc_result.hello = "Timeout" => gc_hellos = HELLO_TRIES /\ gc_i = HELLO_TRIES)
    /\ (gc_pc = "hello_send") ~> (gc_result.hello # "none")

\* every outcome of the handshake but the first: a welcome in the last attempt
C39_Witness ==
    /\ gc_result.hello = "Ok"
    /\ gc_hellos = HELLO_TRIES
    /\ gc_welcomes = 1

\* the channel that the closure of request_join_server is to send on next
CbJoinChannel ==
    IF join_callback[gc_cb.step] = "reservation" THEN gc_res_ch ELSE gc_done_ch

\* C40: in request_join_server the closure sends the reservation before it
\* tells do_request it is done, so that once do_request has returned Ok the
\* final recv has the reservation at hand and returns it; without an answer in
\* 1000 ms the call returns an error; and the closure never fails at a send.
C40_JoinCallbackCompletes ==
    /\ gc_pc = "join_recv" => gc_res_ch.buf # <<>>
    /\ gc_pc = "joined" => gc_result.reservation = gc_answer /\ gc_answer # None
    /\ gc_result.join = "Timeout" => gc_pc = "join_failed" /\ gc_result.reservation = None
    /\ ~(gc_cb.closure = "join" /\ gc_cb.panicked)
    /\ ~(gc_cb.closure = "join" /\ sync_send(CbJoinChannel) = "full")

\* the answer comes while do_request waits, and its closure is still to send
\* when do_request times out: the closure then sends to a receiver that is gone
C40_Witness ==
    /\ gc_cb.closure = "join"
    /\ gc_cb.panicked
    /\ gc_result.join = "Timeout"
    /\ gc_answer # None
=============================================================================
